---- MODULE Spec2Model ----
(***************************************************************************)
(* A model of the FRAME fantasy console: the virtual machine of            *)
(* src/js/runner.js (class FrameVM), driven by its host controls           *)
(* (load, run, stop, pause, step) and by its interval timer.               *)
(*                                                                         *)
(* The VM object is the record vm; its fields are the private fields of    *)
(* FrameVM.  Operators that model methods take the record and return the   *)
(* record after the call; a method's return value travels in the field     *)
(* val, and an exception thrown by a method is the field thrown.  The      *)
(* field ev notes what one handler run did (the instruction dispatched,    *)
(* the stack cells it touched, the interrupt it raised); it is what the    *)
(* properties below observe, and no operator of the VM reads it.           *)
(***************************************************************************)
EXTENDS Integers, Naturals, Sequences, FiniteSets, TLC

(***************************************************************************)
(* Program constants of runner.js.                                         *)
(***************************************************************************)
MEMORY_SIZE == 65536
CYCLES_PER_FRAME == 240
CYCLES_PER_INTERRUPT == 960
KERNEL_START_ADDR == 57344
INPUT_DATA_ADDR == 59136
TXT_CURSOR_POS == 59327
TXT_DATA_ADDR == 59328
FONT_START_ADDR == 59392
SCREEN_DATA_ADDR == 60416
INT_START_ADDR == 65532
ROM_START_ADDR == 65534
REG_COUNT == 16
SP == 17
STACK_BASE == 256

(***************************************************************************)
(* JavaScript values.  A read outside a Uint8Array, or of a register that  *)
(* was never written, yields undefined, kept here as a number no           *)
(* computation of the VM produces; arithmetic on it yields NaN, kept as    *)
(* the numbers near it.  The integer coercion of both is 0.                *)
(***************************************************************************)
Undefined == -100000

NotANumber(x) == x < Undefined \div 2

\* the coercion applied by >>>, >>, <<, &, | and ^
ToInt32(x) == IF NotANumber(x) THEN 0 ELSE x

\* (to >>> 0) & 0xff
ToUint8(to) == ToInt32(to) % 256

\* (to >>> 0) & 0xffff
ToUint16(to) == ToInt32(to) % 65536

RECURSIVE Pow2(_)
Pow2(n) == IF n = 0 THEN 1 ELSE 2 * Pow2(n - 1)

\* bit n of x
Bit(x, n) == (ToInt32(x) \div Pow2(n)) % 2

\* the operators &, | and ^, bit by bit
RECURSIVE Bitwise(_, _, _)
Bitwise(f, x, y) ==
  LET a == ToInt32(x)
      b == ToInt32(y)
      bit == CASE f = "&" -> (a % 2) * (b % 2)
               [] f = "|" -> IF a % 2 = 1 \/ b % 2 = 1 THEN 1 ELSE 0
               [] f = "^" -> (a + b) % 2
  IN  IF a = 0 /\ b = 0 THEN 0 ELSE bit + 2 * Bitwise(f, a \div 2, b \div 2)

\* a shift that brings bit 7 round into bit 0
ShiftLeft_Around(x, n) == (ToInt32(x) * Pow2(n)) + (ToInt32(x) \div Pow2(8 - n))

\* x << n and x >> n on a byte operand: the shift count is taken mod 32.
\* Bits 0..30 of the 32-bit result are kept; every use stores the result
\* through a byte mask, which does not see bit 31.
ShiftLeft(x, n) ==
  LET c == ToInt32(n) % 32
  IN  IF c = 0 THEN ToInt32(x)
      ELSE IF c = 31 THEN 0
      ELSE (ToInt32(x) % Pow2(31 - c)) * Pow2(c)

ShiftRight(x, n) ==
  LET c == ToInt32(n) % 32
  IN  IF c = 31 THEN 0 ELSE ToInt32(x) \div Pow2(c)

(***************************************************************************)
(* The assembler of src/unnamed/part_002 (class Assembler).  The source    *)
(* text is taken as the list of tokens #assembleToken cuts it into: a      *)
(* token is its type, its lexeme (lexeme when a number, name when a word,  *)
(* part when the lexeme is the low "<" or high ">" byte of a label) and,   *)
(* for a mnemonic, whether the line ends right behind it (eol).  The field *)
(* fwd notes that a token stands for a label not yet defined; the          *)
(* assembler does not read it.                                             *)
(***************************************************************************)
Opcode ==
  [HLT_A |-> 0, HLT_K |-> 1, HLT_O |-> 2,
   MOV_APB |-> 3, MOV_APK |-> 4, MOV_AIB |-> 5, MOV_AIK |-> 6, MOV_PAB |-> 7,
   MOV_PAK |-> 8, MOV_AB |-> 9, MOV_AK |-> 10, MOV_AP |-> 11, MOV_KA |-> 12,
   MOV_KK |-> 13, MOV_PA |-> 14, MOV_PK |-> 15,
   JMP_PA |-> 16, JMP_PK |-> 17, JMP_P |-> 18,
   BRT_PA |-> 19, BRT_PK |-> 20, BRT_P |-> 21,
   BRF_PA |-> 22, BRF_PK |-> 23, BRF_P |-> 24,
   EQU_AB |-> 25, EQU_AK |-> 26, EQU_PA |-> 27, EQU_PK |-> 28,
   LSS_AB |-> 29, LSS_AK |-> 30,
   AND_ABC |-> 31, AND_ABK |-> 32, AND_AB |-> 33, AND_AK |-> 34,
   OR_ABC |-> 35, OR_ABK |-> 36, OR_AB |-> 37, OR_AK |-> 38,
   XOR_ABC |-> 39, XOR_ABK |-> 40, XOR_AB |-> 41, XOR_AK |-> 42,
   NOT_AB |-> 43, NOT_AK |-> 44, NOT_A |-> 45, NOT_O |-> 46,
   LSH_ABC |-> 47, LSH_ABK |-> 48, LSH_AB |-> 49, LSH_AK |-> 50, LSH_A |-> 51,
   RSH_ABC |-> 52, RSH_ABK |-> 53, RSH_AB |-> 54, RSH_AK |-> 55, RSH_A |-> 56,
   ROL_A |-> 57, ROL_K |-> 58, ROL_P |-> 59,
   ROR_A |-> 60, ROR_K |-> 61, ROR_P |-> 62,
   ADD_ABC |-> 63, ADD_ABK |-> 64, ADD_AB |-> 65, ADD_AK |-> 66,
   INC_A |-> 67, INC_P |-> 68, DEC_A |-> 69, DEC_P |-> 70,
   CALL_P |-> 71, RET_O |-> 72,
   PUSH_A |-> 73, PUSH_K |-> 74,
   POP_A |-> 75, POP_O |-> 76,
   SEI_A |-> 77, SEI_K |-> 78, SEI_O |-> 79,
   CHY_O |-> 80]

InRange(addr) == addr \in 0 .. (MEMORY_SIZE - 1)

TokenType ==
  [INSTRUCTION |-> 0, IDENTIFIER |-> 1, LABEL |-> 2, IMMEDIATE |-> 3,
   REGISTER |-> 4, DIRECTIVE |-> 5, ADDRESS |-> 6, INDIRECT |-> 7,
   COMMA |-> 8, RPAREN |-> 9, ERROR |-> 254, EOF |-> 255]

Mode ==
  [O |-> 0, A |-> 1, K |-> 2, P |-> 3,
   AB |-> 4, AK |-> 5, AP |-> 6, KA |-> 7, KK |-> 8, PA |-> 9, PK |-> 10,
   ABC |-> 11, ABK |-> 12, APB |-> 13, APK |-> 14, AIB |-> 15, AIK |-> 16,
   PAB |-> 17, PAK |-> 18]

\* the JavaScript values null and false, where a mode is expected
JsNull == Undefined - 1
JsFalse == Undefined - 2

\* F(v): a value computed once and used under a local name
Apply(v, F(_)) == F(v)

\* map.set(key, value) and map.delete(key)
Put(map, key, value) ==
  [k \in (DOMAIN map) \cup {key} |-> IF k = key THEN value ELSE map[k]]

Delete(map, key) == [k \in (DOMAIN map) \ {key} |-> map[k]]

\* the lists #initModeTrie inserts, by the mode each ends in
modeTrie ==
  [A |-> <<TokenType.REGISTER>>,
   K |-> <<TokenType.IMMEDIATE>>,
   P |-> <<TokenType.ADDRESS>>,
   AB |-> <<TokenType.REGISTER, TokenType.REGISTER>>,
   AK |-> <<TokenType.REGISTER, TokenType.IMMEDIATE>>,
   KA |-> <<TokenType.IMMEDIATE, TokenType.REGISTER>>,
   KK |-> <<TokenType.IMMEDIATE, TokenType.IMMEDIATE>>,
   AP |-> <<TokenType.REGISTER, TokenType.ADDRESS>>,
   PA |-> <<TokenType.ADDRESS, TokenType.REGISTER>>,
   PK |-> <<TokenType.ADDRESS, TokenType.IMMEDIATE>>,
   ABC |-> <<TokenType.REGISTER, TokenType.REGISTER, TokenType.REGISTER>>,
   ABK |-> <<TokenType.REGISTER, TokenType.REGISTER, TokenType.IMMEDIATE>>,
   APB |-> <<TokenType.REGISTER, TokenType.ADDRESS, TokenType.REGISTER>>,
   APK |-> <<TokenType.REGISTER, TokenType.ADDRESS, TokenType.IMMEDIATE>>,
   AIB |-> <<TokenType.REGISTER, TokenType.INDIRECT, TokenType.REGISTER>>,
   AIK |-> <<TokenType.REGISTER, TokenType.INDIRECT, TokenType.IMMEDIATE>>,
   PAB |-> <<TokenType.ADDRESS, TokenType.REGISTER, TokenType.REGISTER>>,
   PAK |-> <<TokenType.ADDRESS, TokenType.REGISTER, TokenType.IMMEDIATE>>]

\* Trie.findMode: the end of the node modeList leads to (null when no list
\* inserted ends there), false when the walk leaves the trie
findMode(modeList) ==
  IF \E m \in DOMAIN modeTrie : modeTrie[m] = modeList
  THEN Mode[CHOOSE m \in DOMAIN modeTrie : modeTrie[m] = modeList]
  ELSE IF \E m \in DOMAIN modeTrie :
            /\ Len(modeList) < Len(modeTrie[m])
            /\ SubSeq(modeTrie[m], 1, Len(modeList)) = modeList
       THEN JsNull
       ELSE JsFalse

\* #initOpMap: mnemonic -> (mode -> opcode)
opMap ==
  [hlt |-> (Mode.A :> Opcode.HLT_A @@ Mode.K :> Opcode.HLT_K @@ Mode.O :> Opcode.HLT_O),
   mov |-> (Mode.APB :> Opcode.MOV_APB @@ Mode.APK :> Opcode.MOV_APK
            @@ Mode.AIB :> Opcode.MOV_AIB @@ Mode.AIK :> Opcode.MOV_AIK
            @@ Mode.PAB :> Opcode.MOV_PAB @@ Mode.PAK :> Opcode.MOV_PAK
            @@ Mode.AB :> Opcode.MOV_AB @@ Mode.AK :> Opcode.MOV_AK
            @@ Mode.KA :> Opcode.MOV_KA @@ Mode.KK :> Opcode.MOV_KK
            @@ Mode.AP :> Opcode.MOV_AP @@ Mode.PA :> Opcode.MOV_PA
            @@ Mode.PK :> Opcode.MOV_PK),
   jmp |-> (Mode.PA :> Opcode.JMP_PA @@ Mode.PK :> Opcode.JMP_PK @@ Mode.P :> Opcode.JMP_P),
   brt |-> (Mode.PA :> Opcode.BRT_PA @@ Mode.PK :> Opcode.BRT_PK @@ Mode.P :> Opcode.BRT_P),
   brf |-> (Mode.PA :> Opcode.BRF_PA @@ Mode.PK :> Opcode.BRF_PK @@ Mode.P :> Opcode.BRF_P),
   equ |-> (Mode.AB :> Opcode.EQU_AB @@ Mode.AK :> Opcode.EQU_AK
            @@ Mode.PA :> Opcode.EQU_PA @@ Mode.PK :> Opcode.EQU_PK),
   lss |-> (Mode.AB :> Opcode.LSS_AB @@ Mode.AK :> Opcode.LSS_AK),
   and |-> (Mode.ABC :> Opcode.AND_ABC @@ Mode.ABK :> Opcode.AND_ABK
            @@ Mode.AB :> Opcode.AND_AB @@ Mode.AK :> Opcode.AND_AK),
   or |-> (Mode.ABC :> Opcode.OR_ABC @@ Mode.ABK :> Opcode.OR_ABK
           @@ Mode.AB :> Opcode.OR_AB @@ Mode.AK :> Opcode.OR_AK),
   xor |-> (Mode.ABC :> Opcode.XOR_ABC @@ Mode.ABK :> Opcode.XOR_ABK
            @@ Mode.AB :> Opcode.XOR_AB @@ Mode.AK :> Opcode.XOR_AK),
   not |-> (Mode.AB :> Opcode.NOT_AB @@ Mode.AK :> Opcode.NOT_AK
            @@ Mode.A :> Opcode.NOT_A @@ Mode.O :> Opcode.NOT_O),
   lsh |-> (Mode.ABC :> Opcode.LSH_ABC @@ Mode.ABK :> Opcode.LSH_ABK
            @@ Mode.AB :> Opcode.LSH_AB @@ Mode.AK :> Opcode.LSH_AK
            @@ Mode.A :> Opcode.LSH_A),
   rsh |-> (Mode.ABC :> Opcode.RSH_ABC @@ Mode.ABK :> Opcode.RSH_ABK
            @@ Mode.AB :> Opcode.RSH_AB @@ Mode.AK :> Opcode.RSH_AK
            @@ Mode.A :> Opcode.RSH_A),
   rol |-> (Mode.A :> Opcode.ROL_A @@ Mode.K :> Opcode.ROL_K @@ Mode.P :> Opcode.ROL_P),
   ror |-> (Mode.A :> Opcode.ROR_A @@ Mode.K :> Opcode.ROR_K @@ Mode.P :> Opcode.ROR_P),
   add |-> (Mode.ABC :> Opcode.ADD_ABC @@ Mode.ABK :> Opcode.ADD_ABK
            @@ Mode.AB :> Opcode.ADD_AB @@ Mode.AK :> Opcode.ADD_AK),
   inc |-> (Mode.A :> Opcode.INC_A @@ Mode.P :> Opcode.INC_P),
   dec |-> (Mode.A :> Opcode.DEC_A @@ Mode.P :> Opcode.DEC_P),
   call |-> (Mode.P :> Opcode.CALL_P),
   ret |-> (Mode.O :> Opcode.RET_O),
   push |-> (Mode.A :> Opcode.PUSH_A @@ Mode.K :> Opcode.PUSH_K),
   pop |-> (Mode.A :> Opcode.POP_A @@ Mode.O :> Opcode.POP_O),
   sei |-> (Mode.A :> Opcode.SEI_A @@ Mode.K :> Opcode.SEI_K @@ Mode.O :> Opcode.SEI_O),
   chy |-> (Mode.O :> Opcode.CHY_O)]

\* this.#modeMap.get(op): the mode under which #initOpMap lists opcode op,
\* undefined for a value it does not list
modeMap(op) ==
  IF \E n \in DOMAIN opMap : \E k \in DOMAIN opMap[n] : opMap[n][k] = op
  THEN CHOOSE k \in {Mode[m] : m \in DOMAIN Mode} :
         \E n \in DOMAIN opMap : k \in DOMAIN opMap[n] /\ opMap[n][k] = op
  ELSE Undefined

START_POINT == "main"

LABEL_LSB == "<"
LABEL_MSB == ">"

\* #createToken (the line and column of a token only reach error messages)
createToken(type, lexeme, name) ==
  [type |-> type, lexeme |-> lexeme, name |-> name, part |-> "", eol |-> FALSE, fwd |-> ""]

\* null, where a token is expected
NoToken == createToken(JsNull, 0, "")

\* label[0] === "_", over the label names in use
StartsWithUnderscore(label) ==
  label \in {"_l", "_ktxt_clear_loop", "_ktxt_print_loop", "_ktxt_print_f"}

\* this.#program[at] = byte and this.#program[at], on the Uint8Array kept as
\* the function from the addresses of its non-zero bytes
StoreByte(program, at, byte) ==
  IF ~InRange(at) THEN program
  ELSE IF ToUint8(byte) = 0 THEN [a \in (DOMAIN program) \ {at} |-> program[a]]
  ELSE [a \in (DOMAIN program) \cup {at} |-> IF a = at THEN ToUint8(byte) ELSE program[a]]

LoadByte(program, at) ==
  IF ~InRange(at) THEN Undefined ELSE IF at \in DOMAIN program THEN program[at] ELSE 0

\* Assembler.reset, on the token list of a source text
NewAssembler(source) ==
  [source |-> source, idx |-> 0,
   program |-> [a \in {} |-> 0], pos |-> 0,
   hadError |-> FALSE, token |-> NoToken, hasLeftoverToken |-> FALSE,
   labels |-> [l \in {} |-> 0],
   unresolvedLabels |-> [l \in {} |-> <<>>],
   unresolvedLsbLabels |-> [l \in {} |-> <<>>],
   unresolvedMsbLabels |-> [l \in {} |-> <<>>],
   defines |-> [l \in {} |-> NoToken],
   startPoint |-> 0,
   debugInfo |-> [a \in {} |-> 0],
   val |-> NoToken, ok |-> TRUE, err |-> FALSE, num |-> 0, args |-> <<>>, thrown |-> FALSE,
   tried |-> {}, redefined |-> {}, directives |-> {}]

\* #assembleToken: the next token of the text, EOF behind the last
assembleToken(s) ==
  IF s.idx >= Len(s.source)
  THEN [s EXCEPT !.val = createToken(TokenType.EOF, 0, "")]
  ELSE [s EXCEPT !.idx = s.idx + 1, !.val = s.source[s.idx + 1]]

expect(s, type) ==
  Apply(assembleToken(s),
        LAMBDA n : [n EXCEPT !.token = n.val, !.ok = (n.val.type = type)])

emit(s, instruction) ==
  [s EXCEPT !.program = StoreByte(s.program, s.pos, instruction), !.pos = s.pos + 1]

prepareP_HiLo(p) == <<(p \div 256) % 256, p % 256>>

\* #prepareP: [lo, hi]
prepareP(p) == <<p % 256, (p \div 256) % 256>>

\* #emitO .. #emitPAK with #prepareA .. #prepareK: the bytes written for
\* opcode op in a mode, v being the operand values in the order written in
\* the text
OpBytes(mode, op, v) ==
  CASE mode = Mode.O -> <<op>>
    [] mode = Mode.A -> <<op, v[1] % 16>>
    [] mode = Mode.K -> <<op, v[1] % 256>>
    [] mode = Mode.P -> <<op>> \o prepareP(v[1])
    [] mode = Mode.AB -> <<op, (v[1] % 16) + (v[2] % 16) * 16>>
    [] mode = Mode.AK -> <<op, v[1] % 16, v[2] % 256>>
    [] mode = Mode.KA -> <<op, v[1] % 256, v[2] % 16>>
    [] mode = Mode.KK -> <<op, v[1] % 256, v[2] % 256>>
    [] mode = Mode.AP -> <<op, v[1] % 16>> \o prepareP(v[2])
    [] mode = Mode.PA -> <<op>> \o prepareP(v[1]) \o <<v[2] % 16>>
    [] mode = Mode.PK -> <<op>> \o prepareP(v[1]) \o <<v[2] % 256>>
    [] mode = Mode.ABC -> <<op, (v[1] % 16) + (v[2] % 16) * 16, v[3] % 16>>
    [] mode = Mode.ABK -> <<op, (v[1] % 16) + (v[2] % 16) * 16, v[3] % 256>>
    [] mode = Mode.APB -> <<op>> \o prepareP(v[2]) \o <<(v[1] % 16) + (v[3] % 16) * 16>>
    [] mode = Mode.APK -> <<op>> \o prepareP(v[2]) \o <<v[1] % 16, v[3] % 256>>
    [] mode = Mode.AIB -> <<op, (v[1] % 16) + (v[3] % 16) * 16, v[2] % 256>>
    [] mode = Mode.AIK -> <<op, v[1] % 16, v[2] % 256, v[3] % 256>>
    [] mode = Mode.PAB -> <<op>> \o prepareP(v[1]) \o <<(v[2] % 16) + (v[3] % 16) * 16>>
    [] mode = Mode.PAK -> <<op>> \o prepareP(v[1]) \o <<v[2] % 16, v[3] % 256>>

\* the #emit calls of one #emitO .. #emitPAK call, in order
RECURSIVE emitAll(_, _)
emitAll(s, bytes) ==
  IF bytes = <<>> THEN s ELSE emitAll(emit(s, Head(bytes)), Tail(bytes))

\* #getValuesFromArguments
getValuesFromArguments(args) == [i \in 1 .. Len(args) |-> args[i].lexeme]

\* #emitDebug; the argument tokens are kept beside the values
emitDebug(s, op, args) ==
  [s EXCEPT !.debugInfo = Put(s.debugInfo, s.pos,
                              [op |-> op, values |-> getValuesFromArguments(args),
                               args |-> args])]

\* the note of one #emitOpFromArgs call that began at cursor at and left the
\* assembler r: the mode it was given, whether it emitted, the byte then at
\* the cursor and the cursor it left
Tried(r, at, opName, mode, ok) ==
  [r EXCEPT !.tried = @ \cup {[at |-> at, op |-> opName, mode |-> mode, ok |-> ok,
                               first |-> LoadByte(r.program, at), next |-> r.pos]}]

\* #emitOpFromArgs.  An opcode that is undefined or 0 counts as missing; for
\* the mode null the error message is not built: #getModeAsString calls
\* null.toString(), which throws
emitOpFromArgs(s, mode, opName, args) ==
  IF mode \notin DOMAIN opMap[opName] \/ opMap[opName][mode] = 0
  THEN IF mode = JsNull
       THEN Tried([s EXCEPT !.thrown = TRUE], s.pos, opName, mode, FALSE)
       ELSE Tried([s EXCEPT !.err = TRUE], s.pos, opName, mode, FALSE)
  ELSE Tried(emitAll(emitDebug(s, opName, args),
                     OpBytes(mode, opMap[opName][mode], getValuesFromArguments(args))),
             s.pos, opName, mode, TRUE)

\* labelMap.get(label).push(addr), or labelMap.set(label, [addr])
Pend(labelMap, label, addr) ==
  Put(labelMap, label,
      IF label \in DOMAIN labelMap THEN Append(labelMap[label], addr) ELSE <<addr>>)

resolveImmediate(s, token) ==
  IF token.part = "" THEN [s EXCEPT !.val = token]
  ELSE IF token.name \in DOMAIN s.labels
  THEN [s EXCEPT !.val = [token EXCEPT
                            !.lexeme = IF token.part = LABEL_LSB
                                       THEN s.labels[token.name] % 256
                                       ELSE (s.labels[token.name] \div 256) % 256,
                            !.part = ""]]
  ELSE [s EXCEPT !.unresolvedLsbLabels =
                   IF token.part = LABEL_LSB THEN Pend(@, token.name, s.pos) ELSE @,
                 !.unresolvedMsbLabels =
                   IF token.part = LABEL_LSB THEN @ ELSE Pend(@, token.name, s.pos),
                 !.val = [token EXCEPT !.lexeme = 0, !.part = "", !.fwd = token.part]]

\* a #resolveLabel that leaves every reference to the next definition
resolveLabel_Pending(s, token) ==
  [s EXCEPT !.unresolvedLabels = Pend(@, token.name, s.pos),
            !.val = [createToken(TokenType.ADDRESS, 0, token.name) EXCEPT !.fwd = "@"]]

resolveLabel(s, token) ==
  IF token.name \in DOMAIN s.labels
  THEN [s EXCEPT !.val = createToken(TokenType.ADDRESS, s.labels[token.name], "")]
  ELSE [s EXCEPT !.unresolvedLabels = Pend(@, token.name, s.pos),
                 !.val = [createToken(TokenType.ADDRESS, 0, token.name) EXCEPT !.fwd = "@"]]

resolveIdentifier(s, token) ==
  IF token.name \in DOMAIN s.defines
  THEN [s EXCEPT !.val = s.defines[token.name]]
  ELSE [s EXCEPT !.val = NoToken]

getArgument(s) ==
  Apply(assembleToken(s),
        LAMBDA n :
          CASE n.val.type \in {TokenType.REGISTER, TokenType.ADDRESS, TokenType.INDIRECT} -> n
            [] n.val.type = TokenType.IMMEDIATE -> resolveImmediate(n, n.val)
            [] n.val.type = TokenType.LABEL -> resolveLabel(n, n.val)
            [] n.val.type = TokenType.IDENTIFIER -> resolveIdentifier(n, n.val)
            [] OTHER -> [n EXCEPT !.token = n.val,
                                  !.val = IF n.val.type = TokenType.ERROR THEN n.val ELSE NoToken])

\* #getArguments, args being the arguments gathered so far; it returns the
\* list in args, or an error in err
RECURSIVE getArguments(_, _)
getArguments(s, args) ==
  Apply(getArgument(s),
        LAMBDA a :
          IF a.val.type = JsNull
          THEN [a EXCEPT !.hasLeftoverToken = TRUE, !.args = args, !.err = FALSE]
          ELSE IF a.val.type = TokenType.ERROR
          THEN [a EXCEPT !.args = <<>>, !.err = TRUE]
          ELSE Apply(expect(a, TokenType.COMMA),
                     LAMBDA e :
                       IF e.ok THEN getArguments(e, Append(args, a.val))
                       ELSE [e EXCEPT !.hasLeftoverToken = TRUE,
                                      !.args = Append(args, a.val), !.err = FALSE]))

getModeFromArguments(args) ==
  IF Len(args) = 0 THEN Mode.O ELSE findMode([i \in 1 .. Len(args) |-> args[i].type])

\* #handleInstruction; this.#peek() === "\n" is the eol of the mnemonic
handleInstruction(s, opName) ==
  IF s.token.eol THEN emitOpFromArgs(s, Mode.O, opName, <<>>)
  ELSE Apply(getArguments(s, <<>>),
             LAMBDA g :
               IF g.err THEN g
               ELSE emitOpFromArgs(g, getModeFromArguments(g.args), opName, g.args))

\* where the bytes of a label go, counted from a noted place whose byte,
\* looked up as an opcode, has the given mode: the switch of
\* #fixUnresolvedLabel (whole) or of #fixUnresolvedLabelImmediate; 0 when the
\* switch has no case for the mode
FixOffset(mode, whole) ==
  IF whole
  THEN CASE mode \in {Mode.P, Mode.PA, Mode.PK, Mode.APB, Mode.PAB, Mode.APK, Mode.PAK} -> 1
         [] mode = Mode.AP -> 2
         [] OTHER -> 0
  ELSE CASE mode = Mode.K -> 1
         [] mode \in {Mode.AK, Mode.ABK} -> 2
         [] mode = Mode.PK -> 3
         [] mode \in {Mode.APK, Mode.PAK} -> 4
         [] OTHER -> 0

\* the fix(i) of those two methods
Fix(program, at, offset, bytes) ==
  IF offset = 0 THEN program
  ELSE IF Len(bytes) = 2
  THEN StoreByte(StoreByte(program, at + offset, bytes[1]), at + offset + 1, bytes[2])
  ELSE StoreByte(program, at + offset, bytes[1])

\* the loop of those two methods, from entry n of the noted places on
RECURSIVE fixLoop(_, _, _, _, _)
fixLoop(program, unresolved, n, bytes, whole) ==
  IF n > Len(unresolved) THEN program
  ELSE fixLoop(Fix(program, unresolved[n],
                   FixOffset(modeMap(LoadByte(program, unresolved[n])), whole), bytes),
               unresolved, n + 1, bytes, whole)

\* the part of #emitLabel for the whole-address references, with
\* #fixUnresolvedLabel
fixUnresolvedLabel(s, label, addr) ==
  IF label \notin DOMAIN s.unresolvedLabels THEN s
  ELSE [s EXCEPT !.program = fixLoop(s.program, s.unresolvedLabels[label], 1,
                                     <<addr % 256, (addr \div 256) % 256>>, TRUE),
                 !.unresolvedLabels = Delete(s.unresolvedLabels, label)]

\* the parts of #emitLabel for the "<" and ">" references, with
\* #fixUnresolvedLabelImmediate
fixUnresolvedLabelImmediate(s, label, addr) ==
  [s EXCEPT !.program =
              Apply(IF label \in DOMAIN s.unresolvedLsbLabels
                    THEN fixLoop(s.program, s.unresolvedLsbLabels[label], 1, <<addr % 256>>, FALSE)
                    ELSE s.program,
                    LAMBDA p :
                      IF label \in DOMAIN s.unresolvedMsbLabels
                      THEN fixLoop(p, s.unresolvedMsbLabels[label], 1,
                                   <<(addr \div 256) % 256>>, FALSE)
                      ELSE p),
            !.unresolvedLsbLabels = Delete(s.unresolvedLsbLabels, label),
            !.unresolvedMsbLabels = Delete(s.unresolvedMsbLabels, label)]

\* #emitLabel; a definition that finds the label bound is noted with the
\* address found and with what became of it
emitLabel(s, token) ==
  IF token.name \in DOMAIN s.labels
     /\ ~StartsWithUnderscore(token.name) /\ s.labels[token.name] # 0
  THEN [s EXCEPT !.err = TRUE,
                 !.redefined = @ \cup {[label |-> token.name,
                                        first |-> s.labels[token.name], refused |-> TRUE]}]
  ELSE fixUnresolvedLabelImmediate(
         fixUnresolvedLabel(
           [s EXCEPT !.labels = Put(s.labels, token.name, s.pos),
                     !.redefined = IF token.name \in DOMAIN s.labels
                                   THEN @ \cup {[label |-> token.name,
                                                 first |-> s.labels[token.name],
                                                 refused |-> FALSE]}
                                   ELSE @],
           token.name, s.pos),
         token.name, s.pos)

\* #getDirectiveArg with #getValueFromArgument: the value in num, or err
getDirectiveArg(s) ==
  Apply(getArgument(s),
        LAMBDA a :
          IF a.val.type \in {TokenType.IMMEDIATE, TokenType.REGISTER,
                             TokenType.ADDRESS, TokenType.INDIRECT}
          THEN [a EXCEPT !.err = FALSE, !.num = a.val.lexeme]
          ELSE [a EXCEPT !.err = TRUE])

emitDirectiveAddr(s) ==
  Apply(getDirectiveArg(s), LAMBDA d : IF d.err THEN d ELSE [d EXCEPT !.pos = d.num])

RECURSIVE emitDirectiveByte(_)
emitDirectiveByte(s) ==
  Apply(getDirectiveArg(s),
        LAMBDA d :
          IF d.err THEN [d EXCEPT !.err = FALSE]
          ELSE Apply(expect(emit(d, d.num), TokenType.COMMA),
                     LAMBDA e :
                       IF e.ok THEN emitDirectiveByte(e)
                       ELSE [e EXCEPT !.hasLeftoverToken = TRUE]))

emitDirectiveDef(s) ==
  Apply(assembleToken(s),
        LAMBDA ident :
          IF ident.val.type # TokenType.IDENTIFIER THEN [ident EXCEPT !.err = TRUE]
          ELSE Apply(assembleToken(ident),
                     LAMBDA value :
                       [value EXCEPT !.defines = Put(value.defines, ident.val.name, value.val)]))

RECURSIVE emitDirectiveWord(_)
emitDirectiveWord(s) ==
  Apply(getDirectiveArg(s),
        LAMBDA d :
          IF d.err THEN [d EXCEPT !.err = FALSE]
          ELSE emitDirectiveWord(emit(emit(d, d.num % 256), (d.num \div 256) % 256)))

\* the note of a directive: the place of its first argument in the text, the
\* cursor it found (at) and the cursor it left (next), r being the assembler
\* it left
Directed(r, name, idx, at) ==
  [r EXCEPT !.directives = @ \cup {[name |-> name, idx |-> idx, at |-> at, next |-> r.pos]}]

emitDirective(s, token) ==
  CASE token.name = "addr" -> Directed(emitDirectiveAddr(s), token.name, s.idx, s.pos)
    [] token.name = "byte" -> Directed(emitDirectiveByte(s), token.name, s.idx, s.pos)
    [] token.name = "def" -> Directed(emitDirectiveDef(s), token.name, s.idx, s.pos)
    [] token.name = "word" -> Directed(emitDirectiveWord(s), token.name, s.idx, s.pos)
    [] OTHER -> [s EXCEPT !.err = TRUE]

\* #emitToken with #emitInstruction: an error returned is err
emitToken(s) ==
  CASE s.token.type = TokenType.INSTRUCTION -> handleInstruction(s, s.token.name)
    [] s.token.type = TokenType.LABEL -> emitLabel(s, s.token)
    [] s.token.type = TokenType.DIRECTIVE -> emitDirective(s, s.token)
    [] OTHER -> s

\* #handleToken with #logError: the return value in ok
handleToken(s) ==
  Apply(emitToken([s EXCEPT !.err = FALSE]),
        LAMBDA r : [r EXCEPT !.hadError = r.hadError \/ (r.err /\ ~r.thrown),
                             !.ok = ~r.err])

\* the do ... while (this.#hasLeftoverToken) of #assemble
RECURSIVE handleTokens(_)
handleTokens(s) ==
  Apply(handleToken([s EXCEPT !.hasLeftoverToken = FALSE]),
        LAMBDA h : IF h.thrown \/ ~h.ok \/ ~h.hasLeftoverToken THEN h ELSE handleTokens(h))

\* the while (true) of #assemble
RECURSIVE assembleLoop(_)
assembleLoop(s) ==
  Apply(assembleToken(s),
        LAMBDA n :
          IF n.val.type = TokenType.EOF THEN [n EXCEPT !.token = n.val]
          ELSE IF n.val.type = TokenType.ERROR
          THEN [n EXCEPT !.token = n.val, !.hadError = TRUE]
          ELSE Apply(handleTokens([n EXCEPT !.token = n.val]),
                     LAMBDA h : IF h.thrown THEN h ELSE assembleLoop(h)))

assemble(s) ==
  Apply(assembleLoop(s),
        LAMBDA a :
          IF a.thrown THEN a
          ELSE [a EXCEPT !.hadError = \/ a.hadError
                                      \/ DOMAIN a.unresolvedLabels # {}
                                      \/ DOMAIN a.unresolvedLsbLabels # {}
                                      \/ DOMAIN a.unresolvedMsbLabels # {},
                         !.startPoint = IF START_POINT \in DOMAIN a.labels
                                        THEN a.labels[START_POINT] ELSE 0])

\* #loadExtraInfo
loadExtraInfo(s, extraInfo) ==
  [s EXCEPT !.labels = [l \in DOMAIN extraInfo.labels |-> extraInfo.labels[l]],
            !.defines = [l \in DOMAIN extraInfo.defines |-> extraInfo.defines[l]]]

\* assembleProgram: what the call leaves and returns.  result is "ok" with
\* the image in program and main, "null", or "thrown" when the call did not
\* return
assembleProgram(source, extraInfo) ==
  Apply(assemble(loadExtraInfo(NewAssembler(source), extraInfo)),
        LAMBDA a :
          [result |-> IF a.thrown THEN "thrown" ELSE IF a.hadError THEN "null" ELSE "ok",
           source |-> source,
           program |-> a.program, main |-> a.startPoint,
           labels |-> a.labels, defines |-> a.defines, debugInfo |-> a.debugInfo,
           tried |-> a.tried, redefined |-> a.redefined, directives |-> a.directives])

(***************************************************************************)
(* Source texts, as the tokens #assembleToken cuts them into.              *)
(***************************************************************************)
\* $n, a number or character, %n, (n), @name, @<name and @>name
Reg(n) == createToken(TokenType.REGISTER, n, "")
Imm(n) == createToken(TokenType.IMMEDIATE, n, "")
Addr(n) == createToken(TokenType.ADDRESS, n, "")
Ind(n) == createToken(TokenType.INDIRECT, n, "")
Lbl(name) == createToken(TokenType.LABEL, 0, name)
Part(part, name) == [createToken(TokenType.IMMEDIATE, 0, name) EXCEPT !.part = part]

\* the argument tokens with the commas between them
RECURSIVE Commas(_)
Commas(args) ==
  IF Len(args) <= 1 THEN args
  ELSE <<Head(args), createToken(TokenType.COMMA, 0, "")>> \o Commas(Tail(args))

\* a mnemonic with its arguments; a directive with its arguments; a mnemonic
\* with the end of the line right behind it
Stmt(name, args) == <<createToken(TokenType.INSTRUCTION, 0, name)>> \o Commas(args)
Dir(name, args) == <<createToken(TokenType.DIRECTIVE, 0, name)>> \o Commas(args)
Bare(name) == <<[createToken(TokenType.INSTRUCTION, 0, name) EXCEPT !.eol = TRUE]>>

KERNEL_SRC ==
  Dir("addr", <<Imm(57344)>>)
  \o <<Lbl("ktxt_move_x")>>
  \o Stmt("mov", <<Reg(14), Addr(59327)>>)
  \o Stmt("and", <<Reg(14), Imm(248)>>)
  \o Stmt("and", <<Reg(8), Imm(7)>>)
  \o Stmt("or", <<Reg(14), Reg(8)>>)
  \o Stmt("mov", <<Addr(59327), Reg(14)>>)
  \o Bare("ret")
  \o <<Lbl("ktxt_move_y")>>
  \o Stmt("mov", <<Reg(14), Addr(59327)>>)
  \o Stmt("and", <<Reg(14), Imm(199)>>)
  \o Stmt("and", <<Reg(8), Imm(7)>>)
  \o Stmt("lsh", <<Reg(8), Imm(3)>>)
  \o Stmt("or", <<Reg(14), Reg(8)>>)
  \o Stmt("mov", <<Addr(59327), Reg(14)>>)
  \o Bare("ret")
  \o <<Lbl("ktxt_clear")>>
  \o Stmt("sei", <<Reg(0)>>)
  \o Stmt("mov", <<Addr(59327), Reg(0)>>)
  \o Stmt("push", <<Reg(8)>>)
  \o Stmt("mov", <<Reg(8), Imm(32)>>)
  \o <<Lbl("_ktxt_clear_loop")>>
  \o Stmt("call", <<Lbl("ktxt_putch")>>)
  \o Stmt("equ", <<Reg(14), Reg(0)>>)
  \o Stmt("brf", <<Lbl("_ktxt_clear_loop")>>)
  \o Stmt("pop", <<Reg(8)>>)
  \o Stmt("sei", <<>>)
  \o Bare("ret")
  \o <<Lbl("ktxt_print")>>
  \o Stmt("sei", <<Reg(0)>>)
  \o Stmt("mov", <<Reg(14), Reg(0)>>)
  \o Stmt("mov", <<Imm(254), Reg(8)>>)
  \o Stmt("mov", <<Imm(255), Reg(9)>>)
  \o <<Lbl("_ktxt_print_loop")>>
  \o Stmt("mov", <<Reg(8), Ind(254), Reg(14)>>)
  \o Stmt("equ", <<Reg(8), Reg(0)>>)
  \o Stmt("brt", <<Lbl("_ktxt_print_f")>>)
  \o Stmt("push", <<Reg(14)>>)
  \o Stmt("call", <<Lbl("ktxt_putch")>>)
  \o Stmt("pop", <<Reg(14)>>)
  \o Stmt("inc", <<Reg(14)>>)
  \o Stmt("jmp", <<Lbl("_ktxt_print_loop")>>)
  \o <<Lbl("_ktxt_print_f")>>
  \o Stmt("sei", <<>>)
  \o Bare("ret")
  \o <<Lbl("ktxt_putch")>>
  \o Stmt("sei", <<Reg(0)>>)
  \o Stmt("mov", <<Reg(14), Addr(59327)>>)
  \o Stmt("mov", <<Addr(59328), Reg(14), Reg(8)>>)
  \o Stmt("inc", <<Reg(14)>>)
  \o Stmt("and", <<Reg(14), Imm(63)>>)
  \o Stmt("mov", <<Addr(59327), Reg(14)>>)
  \o Stmt("sei", <<>>)
  \o Bare("ret")

\* assembleWithInfo(KERNEL_SRC) of #initKernel: the kernel image, and the
\* labels and defines getKernelInfo hands to the assembly of a guest
Kernel == assembleProgram(KERNEL_SRC, [labels |-> << >>, defines |-> << >>])


(***************************************************************************)
(* Memory.  The constructor leaves the assembled kernel and the font in    *)
(* the Uint8Array of 65,536 bytes and zero elsewhere (BootCell).  The      *)
(* array is kept as its difference from that image: a function from the    *)
(* addresses whose byte differs from BootCell to the byte they hold.       *)
(***************************************************************************)
FONT_DATA ==
  <<0, 0, 0, 0, 0, 0, 0, 0,
    0, 0, 0, 0, 0, 0, 0, 0,
    0, 0, 0, 0, 0, 0, 0, 0,
    0, 0, 0, 0, 0, 0, 0, 0,
    0, 0, 0, 0, 0, 0, 0, 0,
    0, 0, 0, 0, 0, 0, 0, 0,
    0, 0, 0, 0, 0, 0, 0, 0,
    0, 0, 0, 0, 0, 0, 0, 0,
    0, 0, 0, 0, 0, 0, 0, 0,
    0, 0, 0, 0, 0, 0, 0, 0,
    0, 0, 0, 0, 0, 0, 0, 0,
    0, 0, 0, 0, 0, 0, 0, 0,
    0, 0, 0, 0, 0, 0, 0, 0,
    0, 0, 0, 0, 0, 0, 0, 0,
    0, 0, 0, 0, 0, 0, 0, 0,
    0, 0, 0, 0, 0, 0, 0, 0,
    0, 0, 0, 0, 0, 0, 0, 0,
    0, 0, 0, 0, 0, 0, 0, 0,
    0, 0, 0, 0, 0, 0, 0, 0,
    0, 0, 0, 0, 0, 0, 0, 0,
    0, 0, 0, 0, 0, 0, 0, 0,
    0, 0, 0, 0, 0, 0, 0, 0,
    0, 0, 0, 0, 0, 0, 0, 0,
    0, 0, 0, 0, 0, 0, 0, 0,
    0, 0, 0, 0, 0, 0, 0, 0,
    0, 0, 0, 0, 0, 0, 0, 0,
    0, 0, 0, 0, 0, 0, 0, 0,
    0, 0, 0, 0, 0, 0, 0, 0,
    0, 0, 0, 0, 0, 0, 0, 0,
    0, 0, 0, 0, 0, 0, 0, 0,
    0, 0, 0, 0, 0, 0, 0, 0,
    0, 0, 0, 0, 0, 0, 0, 0,
    0, 0, 0, 0, 0, 0, 0, 0,
    0, 24, 24, 24, 24, 0, 24, 0,
    0, 80, 80, 80, 0, 0, 0, 0,
    0, 36, 126, 36, 36, 126, 36, 0,
    0, 8, 30, 60, 10, 60, 8, 0,
    0, 98, 100, 8, 16, 38, 70, 0,
    0, 16, 40, 16, 42, 44, 22, 0,
    0, 64, 64, 64, 0, 0, 0, 0,
    0, 24, 48, 48, 48, 48, 24, 0,
    0, 24, 12, 12, 12, 12, 24, 0,
    0, 8, 62, 28, 34, 0, 0, 0,
    0, 8, 8, 62, 8, 8, 0, 0,
    0, 0, 0, 0, 0, 48, 48, 96,
    0, 0, 0, 60, 0, 0, 0, 0,
    0, 0, 0, 0, 0, 96, 96, 0,
    0, 6, 12, 24, 48, 96, 192, 0,
    0, 60, 102, 118, 110, 102, 60, 0,
    0, 24, 56, 24, 24, 24, 60, 0,
    0, 60, 102, 12, 24, 48, 126, 0,
    0, 60, 102, 12, 6, 102, 60, 0,
    0, 12, 28, 44, 76, 126, 12, 0,
    0, 124, 96, 124, 6, 102, 60, 0,
    0, 60, 96, 124, 102, 102, 60, 0,
    0, 126, 102, 12, 24, 24, 24, 0,
    0, 60, 102, 60, 102, 102, 60, 0,
    0, 60, 102, 102, 62, 6, 60, 0,
    0, 0, 96, 96, 0, 96, 96, 0,
    0, 0, 96, 96, 0, 96, 96, 192,
    0, 24, 48, 96, 48, 24, 0, 0,
    0, 0, 120, 0, 120, 0, 0, 0,
    0, 96, 48, 24, 48, 96, 0, 0,
    0, 60, 102, 12, 24, 0, 24, 0,
    0, 60, 102, 110, 110, 96, 60, 0,
    0, 60, 102, 102, 126, 102, 102, 0,
    0, 124, 102, 124, 102, 102, 124, 0,
    0, 60, 102, 96, 96, 102, 60, 0,
    0, 124, 102, 102, 102, 102, 124, 0,
    0, 126, 96, 124, 96, 96, 126, 0,
    0, 126, 96, 124, 96, 96, 96, 0,
    0, 60, 102, 96, 110, 102, 60, 0,
    0, 102, 102, 126, 102, 102, 102, 0,
    0, 126, 24, 24, 24, 24, 126, 0,
    0, 6, 6, 6, 6, 102, 60, 0,
    0, 102, 102, 108, 120, 108, 102, 0,
    0, 96, 96, 96, 96, 96, 126, 0,
    0, 198, 238, 254, 214, 198, 198, 0,
    0, 102, 102, 118, 126, 110, 102, 0,
    0, 60, 102, 102, 102, 102, 60, 0,
    0, 124, 102, 102, 124, 96, 96, 0,
    0, 60, 102, 102, 102, 108, 54, 0,
    0, 124, 102, 102, 124, 102, 102, 0,
    0, 60, 102, 48, 12, 102, 60, 0,
    0, 126, 24, 24, 24, 24, 24, 0,
    0, 102, 102, 102, 102, 102, 60, 0,
    0, 102, 102, 102, 126, 60, 24, 0,
    0, 198, 198, 214, 254, 238, 198, 0,
    0, 198, 108, 56, 56, 108, 198, 0,
    0, 102, 102, 102, 60, 24, 24, 0,
    0, 126, 12, 24, 48, 96, 126, 0,
    0, 56, 48, 48, 48, 48, 56, 0,
    0, 192, 96, 48, 24, 12, 6, 0,
    0, 56, 24, 24, 24, 24, 56, 0,
    0, 24, 60, 102, 0, 0, 0, 0,
    0, 0, 0, 0, 0, 0, 124, 0,
    0, 96, 48, 0, 0, 0, 0, 0,
    0, 0, 60, 6, 62, 102, 62, 0,
    0, 96, 124, 102, 102, 102, 124, 0,
    0, 0, 60, 102, 96, 102, 60, 0,
    0, 6, 62, 102, 102, 102, 62, 0,
    0, 0, 60, 102, 126, 96, 60, 0,
    0, 28, 48, 124, 48, 48, 48, 0,
    0, 0, 62, 102, 102, 62, 6, 124,
    0, 96, 124, 102, 102, 102, 102, 0,
    0, 24, 0, 56, 24, 24, 60, 0,
    0, 24, 0, 56, 24, 24, 24, 48,
    0, 96, 102, 108, 120, 108, 102, 0,
    0, 24, 24, 24, 24, 24, 12, 0,
    0, 0, 236, 254, 214, 198, 198, 0,
    0, 0, 124, 102, 102, 102, 102, 0,
    0, 0, 60, 102, 102, 102, 60, 0,
    0, 0, 124, 102, 102, 102, 124, 96,
    0, 0, 62, 102, 102, 102, 62, 6,
    0, 0, 108, 118, 96, 96, 96, 0,
    0, 0, 62, 96, 60, 6, 124, 0,
    0, 24, 60, 24, 24, 24, 12, 0,
    0, 0, 102, 102, 102, 102, 62, 0,
    0, 0, 102, 102, 126, 60, 24, 0,
    0, 0, 198, 198, 214, 254, 236, 0,
    0, 0, 102, 60, 24, 60, 102, 0,
    0, 0, 102, 102, 102, 62, 6, 60,
    0, 0, 126, 12, 24, 48, 126, 0,
    48, 96, 96, 192, 96, 96, 48, 0,
    0, 96, 96, 96, 96, 96, 96, 0,
    96, 48, 48, 24, 48, 48, 96, 0,
    0, 0, 0, 58, 108, 0, 0, 0,
    0, 0, 0, 0, 0, 0, 0, 0>>

\* the bytes of Kernel.program, the image #initKernel copies, from
\* KERNEL_START_ADDR on; the image is zero elsewhere
KERNEL_DATA ==
  <<11, 14, 191, 231, 34, 14, 248, 34, 8, 7, 37, 142, 14, 191, 231, 14,
    72, 11, 14, 191, 231, 34, 14, 199, 34, 8, 7, 50, 8, 3, 37, 142,
    14, 191, 231, 14, 72, 77, 0, 14, 191, 231, 0, 73, 8, 10, 8, 32,
    71, 92, 224, 25, 14, 24, 48, 224, 75, 8, 79, 72, 77, 0, 9, 14,
    12, 254, 8, 12, 255, 9, 5, 232, 254, 25, 8, 21, 90, 224, 73, 14,
    71, 92, 224, 75, 14, 67, 14, 18, 70, 224, 79, 72, 77, 0, 11, 14,
    191, 231, 7, 192, 231, 142, 67, 14, 34, 14, 63, 14, 191, 231, 14, 79,
    72>>

\* the byte #initKernel and #initFont leave at addr
BootCell(addr) ==
  IF addr >= FONT_START_ADDR /\ addr < FONT_START_ADDR + Len(FONT_DATA)
  THEN FONT_DATA[addr - FONT_START_ADDR + 1]
  ELSE IF addr >= KERNEL_START_ADDR /\ addr < KERNEL_START_ADDR + Len(KERNEL_DATA)
  THEN KERNEL_DATA[addr - KERNEL_START_ADDR + 1]
  ELSE 0

EmptyMemory == [a \in {} |-> 0]

\* this.#memory[addr]
ReadCell(memory, addr) ==
  IF ~InRange(addr) THEN Undefined
  ELSE IF addr \in DOMAIN memory THEN memory[addr] ELSE BootCell(addr)

\* this.#memory[addr] = V, V a byte; a store outside the array is dropped
WriteCell(memory, addr, V) ==
  IF ~InRange(addr) THEN memory
  ELSE IF V = BootCell(addr) THEN [a \in (DOMAIN memory) \ {addr} |-> memory[a]]
  ELSE [a \in (DOMAIN memory) \cup {addr} |-> IF a = addr THEN V ELSE memory[a]]

(***************************************************************************)
(* Flags, registers, program counter.                                      *)
(***************************************************************************)
setFlag(s, flag, to) == [s EXCEPT !.flags[flag] = to]

getFlag(s, flag) == s.flags[flag]

updateZeroAndNegative_Bit6(s, v) ==
  [s EXCEPT !.flags["Zero"] = IF v = 0 THEN 1 ELSE 0,
            !.flags["Negative"] = Bit(v, 6)]

updateZeroAndNegative(s, v) ==
  [s EXCEPT !.flags["Zero"] = IF v = 0 THEN 1 ELSE 0,
            !.flags["Negative"] = Bit(v, 7)]

\* the note of a write that has just returned: its target (a register, or -1
\* for memory), the value asked for, the value stored and the flags it left
Wrote(s, reg, to, V) ==
  [s EXCEPT !.ev.writes = @ \cup {[reg |-> reg, to |-> to, stored |-> V,
                                    Z |-> getFlag(s, "Zero"), N |-> getFlag(s, "Negative")]}]

setMemory(s, addr, to) ==
  Wrote(updateZeroAndNegative([s EXCEPT !.memory = WriteCell(s.memory, addr, ToUint8(to))],
                              ToUint8(to)),
        -1, to, ToUint8(to))

setMemory16(s, addr, lo, hi) == setMemory(setMemory(s, addr, lo), addr + 1, hi)

\* a getMemory that reads the array at every address
getMemory_ArrayOnly(s, addr) == ReadCell(s.memory, addr)

getMemory(s, addr) ==
  IF addr = INPUT_DATA_ADDR THEN s.input ELSE ReadCell(s.memory, addr)

getMemory16(s, addr) == ToInt32(getMemory(s, addr)) + 256 * ToInt32(getMemory(s, addr + 1))

\* this.#registers[r] = V, on an object that grows a key when r is new
WriteRegister(registers, r, V) ==
  [k \in (DOMAIN registers) \cup {r} |-> IF k = r THEN V ELSE registers[k]]

setRegister_NoZeroGuard(s, r, to) ==
  LET V == ToUint8(to)
  IN  Wrote(updateZeroAndNegative([s EXCEPT !.registers = WriteRegister(@, r, V)], V),
            r, to, V)

setRegister(s, r, to) ==
  LET V == ToUint8(IF r = 0 THEN 0 ELSE to)
  IN  Wrote(updateZeroAndNegative([s EXCEPT !.registers = WriteRegister(@, r, V)], V),
            r, to, V)

getRegister(s, r) == IF r \in DOMAIN s.registers THEN s.registers[r] ELSE Undefined

setSP(s, to) == setRegister(s, SP, to)

getSP(s) == getRegister(s, SP)

setPC(s, to) == [s EXCEPT !.pc = ToUint16(to)]

getPC(s) == s.pc

(***************************************************************************)
(* The stack.  A method that returns a value leaves it in val.             *)
(***************************************************************************)
pushToStack(s, value) ==
  LET sp == getSP(s)
      addr == STACK_BASE + sp
      n == [s EXCEPT !.ev.stack = @ \cup {addr}, !.ev.pushed = value]
  IN  setSP(setMemory(n, addr, value), sp + 1)

pushToStack16(s, value) ==
  LET u == value
      lo == u % 256
      hi == (u \div 256) % 256
  IN  pushToStack(pushToStack(s, hi), lo)

\* a popFromStack that reads the cell above the top of the stack
popFromStack_Above(s) ==
  LET sp == getSP(s) - 1
      t == setSP(s, sp)
      addr == STACK_BASE + sp + 1
  IN  [t EXCEPT !.val = getMemory(t, addr),
                !.ev.stack = @ \cup {addr}, !.ev.popped = getMemory(t, addr)]

popFromStack(s) ==
  LET sp == getSP(s) - 1
      t == setSP(s, sp)
      addr == STACK_BASE + sp
  IN  [t EXCEPT !.val = getMemory(t, addr),
                !.ev.stack = @ \cup {addr}, !.ev.popped = getMemory(t, addr)]

popFromStack16(s) ==
  LET l == popFromStack(s)
      h == popFromStack(l)
  IN  [h EXCEPT !.val = l.val + 256 * h.val]

(***************************************************************************)
(* Instruction fetch and argument decoding.                                *)
(***************************************************************************)

\* Every fetch of a byte, opcode or operand, advances the clock.
fetchNext(s) ==
  [s EXCEPT !.val = getMemory(s, s.pc),
            !.pc = (s.pc + 1) % 65536,
            !.clock = s.clock + 1]

\* #getArgsA .. #getArgsPAK, by the name of the addressing mode
RECURSIVE getArgs(_, _)
getArgs(s, mode) ==
  CASE mode = "O" ->
         s
    [] mode = "A" ->
         LET n == fetchNext(s)
         IN  [n EXCEPT !.val = n.val % 16]
    [] mode = "K" ->
         fetchNext(s)
    [] mode = "P" ->
         LET l == fetchNext(s)
             h == fetchNext(l)
         IN  [h EXCEPT !.val = l.val + 256 * h.val]
    [] mode = "AB" ->
         LET n == fetchNext(s)
         IN  [n EXCEPT !.val = <<n.val % 16, (n.val \div 16) % 16>>]
    [] mode = "AK" ->
         LET a == getArgs(s, "A")
             k == fetchNext(a)
         IN  [k EXCEPT !.val = <<a.val, k.val>>]
    [] mode = "KA" ->
         LET k == fetchNext(s)
             a == getArgs(k, "A")
         IN  [a EXCEPT !.val = <<k.val, a.val>>]
    [] mode = "KK" ->
         LET k == fetchNext(s)
             l == fetchNext(k)
         IN  [l EXCEPT !.val = <<k.val, l.val>>]
    [] mode = "AP" ->
         LET a == getArgs(s, "A")
             p == getArgs(a, "P")
         IN  [p EXCEPT !.val = <<a.val, p.val>>]
    [] mode = "PA" ->
         LET p == getArgs(s, "P")
             a == getArgs(p, "A")
         IN  [a EXCEPT !.val = <<p.val, a.val>>]
    [] mode = "PK" ->
         LET p == getArgs(s, "P")
             k == getArgs(p, "K")
         IN  [k EXCEPT !.val = <<p.val, k.val>>]
    [] mode = "ABC" ->
         LET ab == getArgs(s, "AB")
             c == getArgs(ab, "A")
         IN  [c EXCEPT !.val = <<ab.val[1], ab.val[2], c.val>>]
    [] mode = "ABK" ->
         LET ab == getArgs(s, "AB")
             k == getArgs(ab, "K")
         IN  [k EXCEPT !.val = <<ab.val[1], ab.val[2], k.val>>]
    [] mode = "PAB" ->
         LET p == getArgs(s, "P")
             ab == getArgs(p, "AB")
         IN  [ab EXCEPT !.val = <<p.val, ab.val[1], ab.val[2]>>]
    [] mode = "PAK" ->
         LET p == getArgs(s, "P")
             ak == getArgs(p, "AK")
         IN  [ak EXCEPT !.val = <<p.val, ak.val[1], ak.val[2]>>]
    [] mode = "APB" ->
         LET g == getArgs(s, "PAB")
         IN  [g EXCEPT !.val = <<g.val[2], g.val[1], g.val[3]>>]
    [] mode = "APK" ->
         LET g == getArgs(s, "PAK")
         IN  [g EXCEPT !.val = <<g.val[2], g.val[1], g.val[3]>>]
    [] mode = "AIB" ->
         LET g == getArgs(s, "ABK")
         IN  [g EXCEPT !.val = <<g.val[1], g.val[3], g.val[2]>>]
    [] mode = "AIK" ->
         LET ai == getArgs(s, "AK")
             k == fetchNext(ai)
         IN  [k EXCEPT !.val = <<ai.val[1], ai.val[2], k.val>>]

(***************************************************************************)
(* The host timer table and the run controls a handler can reach.          *)
(***************************************************************************)
\* the handle setInterval returns: one no live interval carries
NewInterval(s) == CHOOSE i \in 1 .. (Cardinality(s.intervals) + 1) : i \notin s.intervals

\* a stop that leaves the interval live
stop_KeepsTimer(s) ==
  IF ~s.running THEN s
  ELSE [s EXCEPT !.running = FALSE, !.runID = -1]

stop(s) ==
  IF ~s.running THEN s
  ELSE [s EXCEPT !.running = FALSE,
                 !.intervals = @ \ {s.runID},
                 !.runID = -1]

pause(s) ==
  IF s.running THEN stop([s EXCEPT !.paused = TRUE])
  ELSE [s EXCEPT !.paused = FALSE,
                 !.running = TRUE,
                 !.intervals = @ \cup {NewInterval(s)},
                 !.runID = NewInterval(s)]

\* #doSyscall: the syscall table is empty
doSyscall(s, syscall) == s

\* #addWithCarry with Carry set only above 0x100
addWithCarry_Above(s, a, b) ==
  LET result == a + b
      c == IF result > 256 THEN setFlag(s, "Carry", 1) ELSE setFlag(s, "Carry", 0)
  IN  [c EXCEPT !.val = ToUint8(result)]

addWithCarry(s, a, b) ==
  LET result == a + b
      c == IF result >= 256 THEN setFlag(s, "Carry", 1) ELSE setFlag(s, "Carry", 0)
  IN  [c EXCEPT !.val = ToUint8(result)]

(***************************************************************************)
(* Instruction implementations, one per entry of #initInstructions.        *)
(***************************************************************************)
\* rotate left through Carry, of the byte V
RotateLeft(V, carry) == ((ToInt32(V) * 2) % 256) + (IF carry # 0 THEN 1 ELSE 0)

\* a shift right of the byte V, which leaves Carry out of bit 7
RotateRight_Shift(V, carry) == ToInt32(V) \div 2

\* rotate right through Carry, of the byte V
RotateRight(V, carry) == (ToInt32(V) \div 2) + (IF carry # 0 THEN 128 ELSE 0)

\* the keys of the #instructions table: the opcodes with an implementation
InstructionKeys ==
  ((0 .. 80) \ {Opcode.EQU_PA, Opcode.EQU_PK, Opcode.PUSH_K}) \cup {Undefined}

\* the #getArgs method the handler of op begins with; "O" when it begins
\* with none
ArgsMode(op) ==
  CASE
       op \in {Opcode.HLT_A, Opcode.NOT_A, Opcode.ROL_A, Opcode.ROR_A,
                Opcode.LSH_A, Opcode.RSH_A, Opcode.INC_A, Opcode.DEC_A,
                Opcode.PUSH_A, Opcode.SEI_A} -> "A"
    [] op \in {Opcode.HLT_K, Opcode.ROL_K, Opcode.ROR_K, Undefined,
                Opcode.SEI_K} -> "K"
    [] op \in {Opcode.JMP_P, Opcode.BRT_P, Opcode.BRF_P, Opcode.ROL_P,
                Opcode.ROR_P, Opcode.INC_P, Opcode.DEC_P, Opcode.CALL_P} -> "P"
    [] op \in {Opcode.MOV_AB, Opcode.EQU_AB, Opcode.LSS_AB, Opcode.AND_AB, Opcode.NOT_AB,
                Opcode.OR_AB, Opcode.XOR_AB, Opcode.LSH_AB, Opcode.RSH_AB,
                Opcode.ADD_AB} -> "AB"
    [] op \in {Opcode.MOV_AK, Opcode.EQU_AK, Opcode.LSS_AK, Opcode.AND_AK, Opcode.NOT_AK,
                Opcode.OR_AK, Opcode.XOR_AK, Opcode.LSH_AK, Opcode.RSH_AK,
                Opcode.ADD_AK} -> "AK"
    [] op \in {Opcode.MOV_KA} -> "KA"
    [] op \in {Opcode.MOV_KK} -> "KK"
    [] op \in {Opcode.MOV_AP} -> "AP"
    [] op \in {Opcode.MOV_PA, Opcode.JMP_PA, Opcode.BRT_PA, Opcode.BRF_PA} -> "PA"
    [] op \in {Opcode.MOV_PK, Opcode.JMP_PK, Opcode.BRT_PK, Opcode.BRF_PK} -> "PK"
    [] op \in {Opcode.AND_ABC, Opcode.OR_ABC, Opcode.XOR_ABC, Opcode.LSH_ABC,
                Opcode.RSH_ABC, Opcode.ADD_ABC} -> "ABC"
    [] op \in {Opcode.AND_ABK, Opcode.OR_ABK, Opcode.XOR_ABK, Opcode.LSH_ABK,
                Opcode.RSH_ABK, Opcode.ADD_ABK} -> "ABK"
    [] op \in {Opcode.MOV_APB} -> "APB"
    [] op \in {Opcode.MOV_APK} -> "APK"
    [] op \in {Opcode.MOV_AIB} -> "AIB"
    [] op \in {Opcode.MOV_AIK} -> "AIK"
    [] op \in {Opcode.MOV_PAB} -> "PAB"
    [] op \in {Opcode.MOV_PAK} -> "PAK"
    [] OTHER -> "O"

\* this.#instructions[instruction]() for a key of the table, arm by arm in the
\* order of #initInstructions; g is the VM as the handler's #getArgs call left
\* it, the operands in g.val
instructions(g, op) ==
  CASE
       op = Opcode.HLT_A ->
         doSyscall(g, getRegister(g, g.val))
    [] op = Opcode.HLT_K ->
         doSyscall(g, g.val)
    [] op = Opcode.HLT_O ->
         pause(g)
    [] op = Opcode.MOV_APB ->
         LET B == getRegister(g, g.val[3])
         IN  setRegister(g, g.val[1], getMemory(g, g.val[2] + B))
    [] op = Opcode.MOV_APK ->
         setRegister(g, g.val[1], getMemory(g, g.val[2] + g.val[3]))
    [] op = Opcode.MOV_AIB ->
         LET i == g.val[2]
             I == getMemory(g, i) + 256 * getMemory(g, (i + 1) % 256)
             B == getRegister(g, g.val[3])
         IN  setRegister(g, g.val[1], getMemory(g, I + B))
    [] op = Opcode.MOV_AIK ->
         LET i == g.val[2]
             I == getMemory(g, i) + 256 * getMemory(g, (i + 1) % 256)
         IN  setRegister(g, g.val[1], I + g.val[3])
    [] op = Opcode.MOV_PAB ->
         LET A == getRegister(g, g.val[2])
             B == getRegister(g, g.val[3])
         IN  setMemory(g, g.val[1] + A, B)
    [] op = Opcode.MOV_PAK ->
         LET A == getRegister(g, g.val[2])
         IN  setMemory(g, g.val[1] + A, g.val[3])
    [] op = Opcode.MOV_AB ->
         setRegister(g, g.val[1], getRegister(g, g.val[2]))
    [] op = Opcode.MOV_AK ->
         setRegister(g, g.val[1], g.val[2])
    [] op = Opcode.MOV_KA ->
         setMemory(g, g.val[1], getRegister(g, g.val[2]))
    [] op = Opcode.MOV_KK ->
         setMemory(g, g.val[1], g.val[2])
    [] op = Opcode.MOV_AP ->
         setRegister(g, g.val[1], getMemory(g, g.val[2]))
    [] op = Opcode.MOV_PA ->
         setMemory(g, g.val[1], getRegister(g, g.val[2]))
    [] op = Opcode.MOV_PK ->
         setMemory(g, g.val[1], g.val[2])
    \* the offset added is the register index a, as in the source
    [] op = Opcode.JMP_PA ->
         setPC(g, g.val[1] + g.val[2])
    [] op = Opcode.JMP_PK ->
         setPC(g, g.val[1] + g.val[2])
    [] op = Opcode.JMP_P ->
         setPC(g, g.val)
    [] op = Opcode.BRT_PA ->
         IF getFlag(g, "Zero") # 0 THEN setPC(g, g.val[1] + g.val[2]) ELSE g
    [] op = Opcode.BRT_PK ->
         IF getFlag(g, "Zero") # 0 THEN setPC(g, g.val[1] + g.val[2]) ELSE g
    [] op = Opcode.BRT_P ->
         IF getFlag(g, "Zero") # 0 THEN setPC(g, g.val) ELSE g
    [] op = Opcode.BRF_PA ->
         IF getFlag(g, "Zero") = 0 THEN setPC(g, g.val[1] + g.val[2]) ELSE g
    [] op = Opcode.BRF_PK ->
         IF getFlag(g, "Zero") = 0 THEN setPC(g, g.val[1] + g.val[2]) ELSE g
    [] op = Opcode.BRF_P ->
         IF getFlag(g, "Zero") = 0 THEN setPC(g, g.val) ELSE g
    [] op = Opcode.EQU_AB ->
         LET eq == IF getRegister(g, g.val[1]) = getRegister(g, g.val[2]) THEN 1 ELSE 0
         IN  setFlag(g, "Zero", eq)
    [] op = Opcode.EQU_AK ->
         LET eq == IF getRegister(g, g.val[1]) = g.val[2] THEN 1 ELSE 0
         IN  setFlag(g, "Zero", eq)
    [] op = Opcode.LSS_AB ->
         LET lss == IF getRegister(g, g.val[1]) < getRegister(g, g.val[2]) THEN 1 ELSE 0
         IN  setFlag(g, "Zero", lss)
    [] op = Opcode.LSS_AK ->
         LET lss == IF getRegister(g, g.val[1]) < g.val[2] THEN 1 ELSE 0
         IN  setFlag(g, "Zero", lss)
    [] op = Opcode.AND_ABC ->
         setRegister(g, g.val[1], Bitwise("&", getRegister(g, g.val[2]), getRegister(g, g.val[3])))
    [] op = Opcode.AND_ABK ->
         setRegister(g, g.val[1], Bitwise("&", getRegister(g, g.val[2]), g.val[3]))
    [] op = Opcode.AND_AB ->
         setRegister(g, g.val[1], Bitwise("&", getRegister(g, g.val[1]), getRegister(g, g.val[2])))
    [] op = Opcode.AND_AK ->
         setRegister(g, g.val[1], Bitwise("&", getRegister(g, g.val[1]), g.val[2]))
    [] op = Opcode.OR_ABC ->
         setRegister(g, g.val[1], Bitwise("|", getRegister(g, g.val[2]), getRegister(g, g.val[3])))
    [] op = Opcode.OR_ABK ->
         setRegister(g, g.val[1], Bitwise("|", getRegister(g, g.val[2]), g.val[3]))
    [] op = Opcode.OR_AB ->
         setRegister(g, g.val[1], Bitwise("|", getRegister(g, g.val[1]), getRegister(g, g.val[2])))
    [] op = Opcode.OR_AK ->
         setRegister(g, g.val[1], Bitwise("|", getRegister(g, g.val[1]), g.val[2]))
    [] op = Opcode.XOR_ABC ->
         setRegister(g, g.val[1], Bitwise("^", getRegister(g, g.val[2]), getRegister(g, g.val[3])))
    [] op = Opcode.XOR_ABK ->
         setRegister(g, g.val[1], Bitwise("^", getRegister(g, g.val[2]), g.val[3]))
    [] op = Opcode.XOR_AB ->
         setRegister(g, g.val[1], Bitwise("^", getRegister(g, g.val[1]), getRegister(g, g.val[2])))
    [] op = Opcode.XOR_AK ->
         setRegister(g, g.val[1], Bitwise("^", getRegister(g, g.val[1]), g.val[2]))
    \* getRegister is called with a second argument it ignores: nothing is stored
    [] op = Opcode.NOT_AB ->
         g
    [] op = Opcode.NOT_AK ->
         g
    [] op = Opcode.NOT_A ->
         LET C == IF getFlag(g, "Zero") = 0 THEN 1 ELSE 0
         IN  setRegister(setFlag(g, "Zero", C), g.val, C)
    [] op = Opcode.NOT_O ->
         setFlag(g, "Zero", IF getFlag(g, "Zero") = 0 THEN 1 ELSE 0)
    [] op = Opcode.ROL_A ->
         LET carry == getFlag(g, "Carry")
             A == getRegister(g, g.val)
         IN  setRegister(setFlag(g, "Carry", Bit(A, 7)), g.val, RotateLeft(A, carry))
    [] op = Opcode.ROL_K ->
         LET carry == getFlag(g, "Carry")
             K == getMemory(g, g.val)
         IN  setMemory(setFlag(g, "Carry", Bit(K, 7)), g.val, RotateLeft(K, carry))
    [] op = Opcode.ROL_P ->
         LET carry == getFlag(g, "Carry")
             P == getMemory(g, g.val)
         IN  setMemory(setFlag(g, "Carry", Bit(P, 7)), g.val, RotateLeft(P, carry))
    [] op = Opcode.ROR_A ->
         LET carry == getFlag(g, "Carry")
             A == getRegister(g, g.val)
         IN  setRegister(setFlag(g, "Carry", Bit(A, 0)), g.val, RotateRight(A, carry))
    [] op = Opcode.ROR_K ->
         LET carry == getFlag(g, "Carry")
             K == getMemory(g, g.val)
         IN  setMemory(setFlag(g, "Carry", Bit(K, 0)), g.val, RotateRight(K, carry))
    [] op = Opcode.ROR_P ->
         LET carry == getFlag(g, "Carry")
             P == getMemory(g, g.val)
         IN  setMemory(setFlag(g, "Carry", Bit(P, 0)), g.val, RotateRight(P, carry))
    [] op = Opcode.LSH_ABC ->
         LET B == getRegister(g, g.val[2])
             C == getRegister(g, g.val[3])
         IN  setRegister(setFlag(g, "Carry", IF B > 127 THEN 1 ELSE 0), g.val[1], ShiftLeft(B, C))
    [] op = Opcode.LSH_ABK ->
         LET B == getRegister(g, g.val[2])
         IN  setRegister(setFlag(g, "Carry", IF B > 127 THEN 1 ELSE 0), g.val[1], ShiftLeft(B, g.val[3]))
    [] op = Opcode.LSH_AB ->
         LET A == getRegister(g, g.val[1])
             B == getRegister(g, g.val[2])
         IN  setRegister(setFlag(g, "Carry", IF A > 127 THEN 1 ELSE 0), g.val[1], ShiftLeft(A, B))
    [] op = Opcode.LSH_AK ->
         LET A == getRegister(g, g.val[1])
         IN  setRegister(setFlag(g, "Carry", IF A > 127 THEN 1 ELSE 0), g.val[1], ShiftLeft(A, g.val[2]))
    [] op = Opcode.LSH_A ->
         LET A == getRegister(g, g.val)
         IN  setRegister(setFlag(g, "Carry", IF A > 127 THEN 1 ELSE 0), g.val, ShiftLeft(A, 1))
    [] op = Opcode.RSH_ABC ->
         LET B == getRegister(g, g.val[2])
             C == getRegister(g, g.val[3])
         IN  setRegister(setFlag(g, "Carry", Bit(B, 0)), g.val[1], ShiftRight(B, C))
    [] op = Opcode.RSH_ABK ->
         LET B == getRegister(g, g.val[2])
         IN  setRegister(setFlag(g, "Carry", Bit(B, 0)), g.val[1], ShiftRight(B, g.val[3]))
    [] op = Opcode.RSH_AB ->
         LET A == getRegister(g, g.val[1])
             B == getRegister(g, g.val[2])
         IN  setRegister(setFlag(g, "Carry", Bit(A, 0)), g.val[1], ShiftRight(A, B))
    [] op = Opcode.RSH_AK ->
         LET A == getRegister(g, g.val[1])
         IN  setRegister(setFlag(g, "Carry", Bit(A, 0)), g.val[1], ShiftRight(A, g.val[2]))
    [] op = Opcode.RSH_A ->
         LET A == getRegister(g, g.val)
         IN  setRegister(setFlag(g, "Carry", Bit(A, 0)), g.val, ShiftRight(A, 1))
    [] op = Opcode.ADD_ABC ->
         LET r == addWithCarry(g, getRegister(g, g.val[2]), getRegister(g, g.val[3]))
         IN  setRegister(r, g.val[1], r.val)
    [] op = Opcode.ADD_ABK ->
         LET r == addWithCarry(g, getRegister(g, g.val[2]), g.val[3])
         IN  setRegister(r, g.val[1], r.val)
    [] op = Opcode.ADD_AB ->
         LET r == addWithCarry(g, getRegister(g, g.val[1]), getRegister(g, g.val[2]))
         IN  setRegister(r, g.val[1], r.val)
    [] op = Opcode.ADD_AK ->
         LET r == addWithCarry(g, getRegister(g, g.val[1]), g.val[2])
         IN  setRegister(r, g.val[1], r.val)
    [] op = Opcode.INC_A ->
         setRegister(g, g.val, getRegister(g, g.val) + 1)
    [] op = Opcode.INC_P ->
         setMemory(g, g.val, getMemory(g, g.val) + 1)
    [] op = Opcode.DEC_A ->
         setRegister(g, g.val, getRegister(g, g.val) - 1)
    [] op = Opcode.DEC_P ->
         setMemory(g, g.val, getMemory(g, g.val) - 1)
    [] op = Opcode.CALL_P ->
         LET pc == getPC(g)
         IN  setPC(pushToStack16(g, pc), g.val)
    [] op = Opcode.RET_O ->
         LET r == popFromStack16(g) IN setPC(r, r.val)
    [] op = Opcode.PUSH_A ->
         pushToStack(g, getRegister(g, g.val))
    \* keyed by Opcode.PUSH_O, which the opcode table does not define
    [] op = Undefined ->
         pushToStack(g, g.val)
    [] op = Opcode.POP_A ->
         LET v == popFromStack(g)
             a == getArgs(v, "A")
         IN  setRegister([a EXCEPT !.ev.args = <<a.val>>], a.val, v.val)
    [] op = Opcode.POP_O ->
         popFromStack(g)
    [] op = Opcode.SEI_A ->
         setFlag(g, "Interrupt", IF getRegister(g, g.val) = 0 THEN 0 ELSE 1)
    [] op = Opcode.SEI_K ->
         setFlag(g, "Interrupt", IF g.val = 0 THEN 0 ELSE 1)
    [] op = Opcode.SEI_O ->
         setFlag(g, "Interrupt", 1)
    [] op = Opcode.CHY_O ->
         setFlag(g, "Zero", getFlag(g, "Carry"))

\* callback(), f being the VM after the fetch of the opcode f.val.  A byte with
\* no entry in the table makes the call throw a TypeError.
\* the operands a #getArgs call returned, as a list
Operands(g, mode) ==
  [g EXCEPT !.ev.args = IF mode = "O" THEN <<>>
                        ELSE IF mode \in {"A", "K", "P"} THEN <<g.val>>
                        ELSE g.val]

callback(f) ==
  [(IF f.val \in InstructionKeys
    THEN instructions(Operands(getArgs(f, ArgsMode(f.val)), ArgsMode(f.val)), f.val)
    ELSE [f EXCEPT !.thrown = TRUE])
   EXCEPT !.ev.op = f.val]

\* the record of a cycle that took the VM from s to r
Cycled(s, r) ==
  [r EXCEPT !.ev.opPC = s.pc, !.ev.opSP = getSP(s),
            !.ev.pcAfter = r.pc, !.ev.spAfter = getSP(r),
            !.ev.opStack = r.ev.stack, !.ev.clockBefore = s.clock,
            !.ev.clockAfter = r.clock,
            !.ev.before = [registers |-> s.registers, flags |-> s.flags,
                           memory |-> s.memory, input |-> s.input]]

cycle(s) == Cycled(s, callback(fetchNext([s EXCEPT !.ev.stack = {}])))

(***************************************************************************)
(* The text renderer and interrupt entry.                                  *)
(***************************************************************************)
FRAME_WIN_W == 64
FRAME_WIN_H == 64

\* the screen bytes #blit can reach: one per pixel
SCREEN_SIZE == FRAME_WIN_W * FRAME_WIN_H

InScreen(addr) == addr >= SCREEN_DATA_ADDR /\ addr < SCREEN_DATA_ADDR + SCREEN_SIZE

\* the rows of a #draw that walks the cells column by column
RowOfScreen_Transposed(addr) ==
  LET q == addr - SCREEN_DATA_ADDR
      px == q % 64
      py == q \div 64
  IN  ((px \div 8) * 8 + (py \div 8)) * 8 + (py % 8)

\* the index (cell * 8 + row) of the glyph row whose blits write screen byte addr
RowOfScreen(addr) ==
  LET q == addr - SCREEN_DATA_ADDR
      px == q % 64
      py == q \div 64
  IN  ((py \div 8) * 8 + (px \div 8)) * 8 + (py % 8)

\* #draw.  Its loops visit the glyph rows in the order n = cell * 8 + row and
\* glyph row n blits the eight screen bytes a with RowOfScreen(a) = n, each
\* exactly once.  Pixel(s, a) is the value #draw leaves in screen byte a: a
\* bit of the glyph byte that row read.  The glyph of a character >= 128
\* lies in the screen area itself, and is read as the earlier blits of the
\* same #draw left it.
RECURSIVE Pixel(_, _)
Pixel(s, a) ==
  LET n == RowOfScreen(a)
      i == n \div 8
      oy == n % 8
      ox == (a - SCREEN_DATA_ADDR) % 8
      letter == getMemory(s, TXT_DATA_ADDR + i)
      j == FONT_START_ADDR + letter * 8 + oy
      byte == IF InScreen(j) /\ RowOfScreen(j) < n THEN Pixel(s, j) ELSE getMemory(s, j)
  IN  Bit(byte, 7 - ox)

draw(s) ==
  LET ones == {a \in SCREEN_DATA_ADDR .. (SCREEN_DATA_ADDR + SCREEN_SIZE - 1) : Pixel(s, a) = 1}
      kept == {a \in DOMAIN s.memory : ~InScreen(a)}
      last == IF (SCREEN_DATA_ADDR + SCREEN_SIZE - 1) \in ones THEN 1 ELSE 0
  IN  updateZeroAndNegative(
        [s EXCEPT !.memory = [a \in kept \cup ones |-> IF a \in ones THEN 1 ELSE s.memory[a]]],
        last)

triggerInterrupt(s) ==
  LET n == [s EXCEPT !.needsInterrupt = FALSE,
                     !.ev.irq = TRUE, !.ev.irqFlag = getFlag(s, "Interrupt"),
                     !.ev.irqPC = getPC(s), !.ev.irqSP = getSP(s)]
      p == pushToStack16(n, getPC(s))
  IN  setPC(p, getMemory16(p, INT_START_ADDR))

(***************************************************************************)
(* Reset, load, run, step.                                                 *)
(***************************************************************************)
RECURSIVE resetRegisters(_, _)
resetRegisters(s, i) ==
  IF i = REG_COUNT THEN s ELSE resetRegisters(setRegister(s, i, 0), i + 1)

reset(s) ==
  LET t == stop(s)
      c == [t EXCEPT !.clock = 0,
                     !.cyclesSinceInterrupt = 1,
                     !.needsInterrupt = FALSE,
                     !.memory = [a \in {b \in DOMAIN t.memory : b >= KERNEL_START_ADDR} |-> t.memory[a]]]
  IN  setSP(setPC(resetRegisters(c, 0), 0), 0)

\* A program is [code, main]: code maps the addresses of the image's non-zero
\* bytes to those bytes.
CodeByte(program, i) == IF i \in DOMAIN program.code THEN program.code[i] ELSE 0

\* a loadProgram that copies the whole image
loadProgram_WholeImage(s, program) ==
  LET r == reset(stop(s))
      copied == updateZeroAndNegative(
                  [r EXCEPT !.memory = [a \in (DOMAIN program.code) \cup (DOMAIN r.memory) |->
                                          IF a \in DOMAIN program.code THEN program.code[a]
                                          ELSE r.memory[a]]],
                  CodeByte(program, MEMORY_SIZE - 1))
      lo == program.main % 256
      hi == (program.main \div 256) % 256
  IN  setMemory16(copied, ROM_START_ADDR, lo, hi)

loadProgram_SwappedVector(s, program) ==
  LET r == reset(stop(s))
      low == {i \in DOMAIN program.code : i < KERNEL_START_ADDR}
      high == {a \in DOMAIN r.memory : a >= KERNEL_START_ADDR}
      copied == updateZeroAndNegative(
                  [r EXCEPT !.memory = [a \in low \cup high |->
                                          IF a \in low THEN program.code[a] ELSE r.memory[a]]],
                  CodeByte(program, KERNEL_START_ADDR - 1))
      lo == program.main % 256
      hi == (program.main \div 256) % 256
  IN  setMemory16(copied, ROM_START_ADDR, hi, lo)

loadProgram(s, program) ==
  LET r == reset(stop(s))
      low == {i \in DOMAIN program.code : i < KERNEL_START_ADDR}
      high == {a \in DOMAIN r.memory : a >= KERNEL_START_ADDR}
      copied == updateZeroAndNegative(
                  [r EXCEPT !.memory = [a \in low \cup high |->
                                          IF a \in low THEN program.code[a] ELSE r.memory[a]]],
                  CodeByte(program, KERNEL_START_ADDR - 1))
      lo == program.main % 256
      hi == (program.main \div 256) % 256
  IN  setMemory16(copied, ROM_START_ADDR, lo, hi)

run(s) ==
  LET p == setPC(s, getMemory16(s, ROM_START_ADDR))
  IN  [p EXCEPT !.running = TRUE,
                !.intervals = @ \cup {NewInterval(s)},
                !.runID = NewInterval(s)]

loadProgramAndRun(s, program) == run(loadProgram(s, program))

IsInterruptDue(s) == s.clock % CYCLES_PER_INTERRUPT = 0

\* the end of step, c being the VM after its cycle: a cycle that throws
\* leaves step before the interrupt test
stepInterrupt(c) ==
  IF c.thrown THEN c
  ELSE IF IsInterruptDue(c) THEN triggerInterrupt(draw(c))
  ELSE c

step(s) ==
  stepInterrupt(cycle(
    IF ~s.running /\ ~s.paused
    THEN LET p == pause([s EXCEPT !.running = TRUE])
         IN  setPC(p, getMemory16(p, ROM_START_ADDR))
    ELSE IF ~s.paused THEN pause(s) ELSE s))

(***************************************************************************)
(* Guest programs: the images handed to loadProgram.  Each is given by its *)
(* assembly source and the bytes the encoding rules give for it.           *)
(***************************************************************************)
PROGRAM_BASE == 512

\* the addresses the kernel's labels are bound to: Kernel.labels
ktxt_clear == KERNEL_START_ADDR + 37
ktxt_clear_loop == KERNEL_START_ADDR + 48
ktxt_print == KERNEL_START_ADDR + 60
ktxt_print_f == KERNEL_START_ADDR + 90
ktxt_putch == KERNEL_START_ADDR + 92

RECURSIVE Repeat(_, _)
Repeat(bytes, n) == IF n = 0 THEN <<>> ELSE bytes \o Repeat(bytes, n - 1)

Lo(addr) == addr % 256
Hi(addr) == (addr \div 256) % 256

\* the image holding bytes from PROGRAM_BASE on, entered at main
Image(bytes, main) ==
  [code |-> [a \in {PROGRAM_BASE + i - 1 : i \in {j \in 1 .. Len(bytes) : bytes[j] # 0}}
               |-> bytes[a - PROGRAM_BASE + 1]],
   main |-> main]

Programs ==
  [
   \* @main  mov $1, 0x2A / hlt / mov $2, $1 / hlt
   hello |-> Image(
     <<Opcode.MOV_AK, 1, 42, Opcode.HLT_O, Opcode.MOV_AB, 2 + 16 * 1, Opcode.HLT_O>>,
     PROGRAM_BASE),
   \* @main  mov $1, 0x85 / mov $0, 0x2A / mov $0, $1 / push $1 / pop $0 /
   \*        add $0, $1 / or $0, $1 / xor $0, $1, 0xFF / inc $0 / dec $0 /
   \*        not $0 / mov $0, %0200 / call @f / hlt / @f ret
   zero |-> Image(
     <<Opcode.MOV_AK, 1, 133, Opcode.MOV_AK, 0, 42, Opcode.MOV_AB, 0 + 16 * 1,
     Opcode.PUSH_A, 1, Opcode.POP_A, 0, Opcode.ADD_AB, 0 + 16 * 1,
     Opcode.OR_AB, 0 + 16 * 1, Opcode.XOR_ABK, 0 + 16 * 1, 255,
     Opcode.INC_A, 0, Opcode.DEC_A, 0, Opcode.NOT_A, 0,
     Opcode.MOV_AP, 0, Lo(PROGRAM_BASE), Hi(PROGRAM_BASE),
     Opcode.CALL_P, Lo(PROGRAM_BASE + 33), Hi(PROGRAM_BASE + 33),
     Opcode.HLT_O, Opcode.RET_O>>,
     PROGRAM_BASE),
   \* @main  push 5 / hlt
   pushk |-> Image(
     <<Opcode.PUSH_K, 5, Opcode.HLT_O>>,
     PROGRAM_BASE),
   \* @main  mov $1, 44
   \* @l1    sei $0 / not (19 times) / dec $1 / brf @l1
   \*        sei
   \* @l2    not (20 times) / jmp @l2
   cadence |-> Image(
     <<Opcode.MOV_AK, 1, 44>>
       \o <<Opcode.SEI_A, 0>> \o Repeat(<<Opcode.NOT_O>>, 19)
       \o <<Opcode.DEC_A, 1, Opcode.BRF_P, Lo(PROGRAM_BASE + 3), Hi(PROGRAM_BASE + 3)>>
       \o <<Opcode.SEI_O>>
       \o Repeat(<<Opcode.NOT_O>>, 20)
       \o <<Opcode.JMP_P, Lo(PROGRAM_BASE + 30), Hi(PROGRAM_BASE + 30)>>,
     PROGRAM_BASE),
   \* @main  mov %fffc, @<irq / mov %fffd, @>irq / mov $1, 31
   \* @l     push $1 (8 times) / dec $1 / brf @l
   \*        push $1 (6 times)
   \*        mov $2, 56
   \* @b     dec $2 / brf @b
   \*        not / hlt / not / hlt
   \* @irq   ret
   irq |-> Image(
     <<Opcode.MOV_PK, Lo(INT_START_ADDR), Hi(INT_START_ADDR), Lo(PROGRAM_BASE + 56),
     Opcode.MOV_PK, Lo(INT_START_ADDR + 1), Hi(INT_START_ADDR + 1), Hi(PROGRAM_BASE + 56),
     Opcode.MOV_AK, 1, 31>>
       \o Repeat(<<Opcode.PUSH_A, 1>>, 8)
       \o <<Opcode.DEC_A, 1, Opcode.BRF_P, Lo(PROGRAM_BASE + 11), Hi(PROGRAM_BASE + 11)>>
       \o Repeat(<<Opcode.PUSH_A, 1>>, 6)
       \o <<Opcode.MOV_AK, 2, 56,
     Opcode.DEC_A, 2, Opcode.BRF_P, Lo(PROGRAM_BASE + 47), Hi(PROGRAM_BASE + 47),
     Opcode.NOT_O, Opcode.HLT_O, Opcode.NOT_O, Opcode.HLT_O, Opcode.RET_O>>,
     PROGRAM_BASE),
   \* @main  mov $1, 31
   \* @l     push $1 (8 times) / dec $1 / brf @l
   \*        push $1 (7 times)
   \*        mov $2, 0x5A / push $2 / pop $3 / call @f / hlt
   \* @f     ret
   call |-> Image(
     <<Opcode.MOV_AK, 1, 31>>
       \o Repeat(<<Opcode.PUSH_A, 1>>, 8)
       \o <<Opcode.DEC_A, 1, Opcode.BRF_P, Lo(PROGRAM_BASE + 3), Hi(PROGRAM_BASE + 3)>>
       \o Repeat(<<Opcode.PUSH_A, 1>>, 7)
       \o <<Opcode.MOV_AK, 2, 90, Opcode.PUSH_A, 2, Opcode.POP_A, 3,
     Opcode.CALL_P, Lo(PROGRAM_BASE + 49), Hi(PROGRAM_BASE + 49),
     Opcode.HLT_O, Opcode.RET_O>>,
     PROGRAM_BASE),
   \* @main  mov $1, 191
   \* @l     dec $1 / brf @l
   \*        hlt / jmp @main
   cross |-> Image(
     <<Opcode.MOV_AK, 1, 191,
     Opcode.DEC_A, 1, Opcode.BRF_P, Lo(PROGRAM_BASE + 3), Hi(PROGRAM_BASE + 3),
     Opcode.HLT_O, Opcode.JMP_P, Lo(PROGRAM_BASE), Hi(PROGRAM_BASE)>>,
     PROGRAM_BASE),
   \* @main  sei $0 / mov $1, 190
   \* @l     dec $1 / brf @l
   \*        not / not / not / hlt / not / hlt
   clear |-> Image(
     <<Opcode.SEI_A, 0, Opcode.MOV_AK, 1, 190,
     Opcode.DEC_A, 1, Opcode.BRF_P, Lo(PROGRAM_BASE + 5), Hi(PROGRAM_BASE + 5),
     Opcode.NOT_O, Opcode.NOT_O, Opcode.NOT_O, Opcode.HLT_O, Opcode.NOT_O, Opcode.HLT_O>>,
     PROGRAM_BASE),
   \* @main  mov %e000, 0x55 / hlt
   scribble |-> Image(
     <<Opcode.MOV_PK, Lo(KERNEL_START_ADDR), Hi(KERNEL_START_ADDR), 85, Opcode.HLT_O>>,
     PROGRAM_BASE)]

ProgramNames == DOMAIN Programs

\* the guests whose run is over, or has shown what it shows, within MaxClock
ShortPrograms == ProgramNames \ {"cadence"}

(***************************************************************************)
(* The state machine.                                                      *)
(*   vm    the FrameVM object and the host's table of live intervals       *)
(*   batch the position of runCallback: idle, or inside its loop with the  *)
(*         target it computed on entry                                     *)
(*   obs   what the handlers run so far have been seen to do               *)
(*   ops   the number of host control events so far                        *)
(***************************************************************************)
VARIABLES vm, batch, obs, ops

vars == <<vm, batch, obs, ops>>

\* bounds of the exploration
MaxClock == 1000
MaxOps == 3
MaxCadenceClock == 2230

\* what an instruction found when it was fetched
NoBefore == [registers |-> << >>, flags |-> << >>, memory |-> << >>, input |-> 0]

NoEvent ==
  [op |-> -1, opPC |-> 0, opSP |-> 0, pcAfter |-> 0, spAfter |-> 0,
   stack |-> {}, opStack |-> {}, pushed |-> -1, popped |-> -1,
   clockBefore |-> 0, clockAfter |-> 0,
   irq |-> FALSE, irqFlag |-> 0, irqPC |-> 0, irqSP |-> 0,
   writes |-> {}, args |-> <<>>, before |-> NoBefore]

\* the object the constructor leaves
Constructed ==
  [pc |-> 0, clock |-> 0, cyclesSinceInterrupt |-> 1, needsInterrupt |-> FALSE,
   registers |-> [r \in (0 .. (REG_COUNT - 1)) \cup {SP} |-> 0],
   flags |-> [Carry |-> 0, Interrupt |-> 1, Zero |-> 1, Negative |-> 0],
   memory |-> EmptyMemory, input |-> 0,
   running |-> FALSE, paused |-> FALSE, runID |-> -1, intervals |-> {},
   val |-> 0, thrown |-> FALSE, ev |-> NoEvent]

NoOp ==
  [op |-> -1, opPC |-> 0, opSP |-> 0, pcAfter |-> 0, spAfter |-> 0,
   opStack |-> {}, pushed |-> -1, popped |-> -1, thrown |-> FALSE,
   writes |-> {}, args |-> <<>>, len |-> 0, before |-> NoBefore, input |-> 0]

Idle == [active |-> FALSE, target |-> 0]

\* no source text has been assembled
NoAsm ==
  [result |-> "none", source |-> << >>, program |-> << >>, main |-> 0,
   labels |-> << >>, defines |-> << >>, debugInfo |-> << >>,
   tried |-> {}, redefined |-> {}, directives |-> {}]

NoObs ==
  [asm |-> NoAsm, loaded |-> "",
   last |-> NoOp, prev |-> NoOp, irqSinceLast |-> FALSE, irqBetween |-> FALSE,
   irq |-> [n |-> 0, flag |-> 1, pc |-> 0, sp |-> 0, open |-> FALSE],
   irqRet |-> [done |-> FALSE, pc |-> 0, sp |-> 0],
   step |-> [done |-> FALSE, before |-> 0, after |-> 0, irq |-> FALSE, ops |-> 0],
   cycles |-> 0, cut |-> FALSE, ended |-> FALSE,
   enabledRun |-> 0]

\* the handler has returned: its scratch values are gone
Settle(s) == [s EXCEPT !.val = 0, !.thrown = FALSE, !.ev = NoEvent]

OpOf(s) ==
  [op |-> s.ev.op, opPC |-> s.ev.opPC, opSP |-> s.ev.opSP,
   pcAfter |-> s.ev.pcAfter, spAfter |-> s.ev.spAfter,
   opStack |-> s.ev.opStack, pushed |-> s.ev.pushed, popped |-> s.ev.popped,
   thrown |-> s.thrown,
   writes |-> s.ev.writes, args |-> s.ev.args,
   len |-> s.ev.clockAfter - s.ev.clockBefore,
   before |-> s.ev.before, input |-> s.input]

\* an interrupt was raised
SeeIrq(o, s) ==
  [o EXCEPT !.irq = [n |-> o.irq.n + 1, flag |-> s.ev.irqFlag, pc |-> s.ev.irqPC,
                     sp |-> s.ev.irqSP, open |-> TRUE],
            !.irqSinceLast = TRUE]

\* an instruction was dispatched; a ret that finds the stack as the open
\* interrupt left it is that interrupt's return
SeeOp(o, s) ==
  LET returns == o.irq.open /\ s.ev.op = Opcode.RET_O /\ ~s.thrown
                 /\ s.ev.opSP = (o.irq.sp + 2) % 256
  IN  [o EXCEPT !.prev = o.last, !.last = OpOf(s), !.loaded = "",
                !.irqBetween = o.irqSinceLast, !.irqSinceLast = FALSE,
                !.irqRet = IF returns THEN [done |-> TRUE, pc |-> s.ev.pcAfter, sp |-> s.ev.spAfter]
                           ELSE [done |-> FALSE, pc |-> 0, sp |-> 0],
                !.irq.open = IF returns THEN FALSE ELSE @]

\* a host control event other than step: what was seen of the run so far
\* no longer describes the next instruction
SeeControl(o) ==
  [o EXCEPT !.last = NoOp, !.prev = NoOp, !.irqSinceLast = FALSE, !.irqBetween = FALSE,
            !.loaded = "",
            !.irqRet = NoObs.irqRet, !.irq.open = FALSE, !.step = NoObs.step,
            !.cycles = 0, !.cut = FALSE, !.ended = FALSE, !.enabledRun = 0]

Init ==
  /\ vm = Constructed
  /\ batch = Idle
  /\ obs = NoObs
  /\ ops = 0

HostEvent ==
  /\ ~batch.active
  /\ ops < MaxOps
  /\ ops' = ops + 1
  /\ batch' = batch

\* the Assemble button
LoadProgram(name) ==
  /\ HostEvent
  /\ vm' = Settle(loadProgram(vm, Programs[name]))
  /\ obs' = [SeeControl(obs) EXCEPT !.loaded = name]

\* the Run button
LoadProgramAndRun(name) ==
  /\ HostEvent
  /\ vm' = Settle(loadProgramAndRun(vm, Programs[name]))
  /\ obs' = SeeControl(obs)

\* the Stop button
Stop ==
  /\ HostEvent
  /\ vm' = Settle(stop(vm))
  /\ obs' = SeeControl(obs)

\* the Pause button
Pause ==
  /\ HostEvent
  /\ vm' = Settle(pause(vm))
  /\ obs' = SeeControl(obs)

\* step has returned, or thrown, leaving the VM as c
Stepped(c) ==
  LET o == SeeOp(obs, c)
      q == IF c.ev.irq THEN SeeIrq(o, c) ELSE o
  IN  /\ vm' = Settle(c)
      /\ obs' = [q EXCEPT !.step = [done |-> TRUE, before |-> c.ev.clockBefore,
                                    after |-> c.ev.clockAfter, irq |-> c.ev.irq,
                                    ops |-> 1],
                          !.cycles = 0, !.cut = FALSE, !.ended = FALSE,
                          !.enabledRun = 0]

\* the Step button
Step ==
  /\ HostEvent
  /\ vm.clock < MaxClock
  /\ Stepped(step(vm))

\* a live interval fires: runCallback computes its target
RunCallbackWithin(limit) ==
  /\ ~batch.active
  /\ vm.intervals # {}
  /\ vm.clock < limit
  /\ batch' = [active |-> TRUE, target |-> vm.clock + CYCLES_PER_FRAME]
  /\ obs' = [obs EXCEPT !.cycles = 0, !.cut = FALSE, !.ended = FALSE, !.step = NoObs.step]
  /\ UNCHANGED <<vm, ops>>

IsBatchInterruptDue(s) ==
  s.cyclesSinceInterrupt = CYCLES_PER_INTERRUPT /\ getFlag(s, "Interrupt") # 0

\* one turn of the loop of runCallback
\* this.#cyclesSinceInterrupt++, which a cycle that throws does not reach
countCycle(c) ==
  IF c.thrown THEN c ELSE [c EXCEPT !.cyclesSinceInterrupt = @ + 1]

runCallbackBody(s) ==
  countCycle(cycle(
    IF IsBatchInterruptDue(s)
    THEN [triggerInterrupt(draw(s)) EXCEPT !.cyclesSinceInterrupt = 0]
    ELSE s))

\* a turn of the loop has left the VM as c; a TypeError ends runCallback
Turned(c) ==
  LET o == IF c.ev.irq THEN SeeIrq(obs, c) ELSE obs
      q == SeeOp(o, c)
  IN  /\ vm' = Settle(c)
      /\ obs' = [q EXCEPT !.cycles = @ + 1,
                          !.cut = c.thrown,
                          !.ended = c.thrown,
                          !.enabledRun = IF c.ev.irq THEN 0
                                         ELSE IF getFlag(vm, "Interrupt") # 0 THEN @ + 1
                                         ELSE 0]
      /\ batch' = IF c.thrown THEN Idle ELSE batch

BatchCycleWithin(limit) ==
  /\ batch.active
  /\ vm.running /\ vm.clock < batch.target
  /\ vm.clock < limit
  /\ Turned(runCallbackBody(vm))
  /\ UNCHANGED ops

RunCallback == RunCallbackWithin(MaxClock)

BatchCycle == BatchCycleWithin(MaxClock)

\* the loop condition fails: runCallback returns
BatchEnd ==
  /\ batch.active
  /\ ~(vm.running /\ vm.clock < batch.target)
  /\ batch' = Idle
  /\ obs' = [obs EXCEPT !.ended = TRUE, !.cut = ~vm.running]
  /\ UNCHANGED <<vm, ops>>

Next ==
  \/ \E name \in ShortPrograms : LoadProgram(name)
  \/ \E name \in ShortPrograms : LoadProgramAndRun(name)
  \/ Stop
  \/ Pause
  \/ Step
  \/ RunCallback
  \/ BatchCycle
  \/ BatchEnd

Spec == Init /\ [][Next]_vars

(***************************************************************************)
(* The Run button pressed once on a guest program that keeps the           *)
(* interrupts disabled for its first 960 cycles, and the interval left to  *)
(* fire with no further host event.                                        *)
(***************************************************************************)
RunCadence == ops = 0 /\ LoadProgramAndRun("cadence")

RunCallbackCadence == RunCallbackWithin(MaxCadenceClock)

BatchCycleCadence == BatchCycleWithin(MaxCadenceClock)

NextCadence ==
  \/ RunCadence
  \/ RunCallbackCadence
  \/ BatchCycleCadence
  \/ BatchEnd

SpecCadence == Init /\ [][NextCadence]_vars

(***************************************************************************)
(* The Assemble or the Run button pressed, as the first host event, on a   *)
(* source text in the editor; the Step button and the interval follow.      *)
(***************************************************************************)
MaxArgs == 3
MaxAsmClock == 12

Kinds == {TokenType.REGISTER, TokenType.IMMEDIATE, TokenType.ADDRESS, TokenType.INDIRECT}

KindLists == UNION {[1 .. n -> Kinds] : n \in 0 .. MaxArgs}

Valuations == 1 .. 3

\* the i-th argument of a statement, of a kind, in valuation v: low values
\* that differ by position, the highest values of the kind, or zero
Operand(kind, v, i) ==
  CASE kind = TokenType.REGISTER ->
         Reg(IF v = 1 THEN i ELSE IF v = 2 THEN 16 - i ELSE 0)
    [] kind = TokenType.IMMEDIATE ->
         Imm(IF v = 1 THEN 90 + i ELSE IF v = 2 THEN 256 - i ELSE 0)
    [] kind = TokenType.ADDRESS ->
         Addr(IF v = 1 THEN 4660 + i ELSE IF v = 2 THEN 65536 - i ELSE 0)
    [] kind = TokenType.INDIRECT ->
         Ind(IF v = 1 THEN 250 + i ELSE IF v = 2 THEN 256 - i ELSE 0)

\* one statement of every mnemonic with every list of argument kinds, and
\* hlt behind it; the operands take every valuation where the kinds make a
\* mode, and the first one where they make none
InstructionSources ==
  {Stmt(q[1], [i \in 1 .. Len(q[2]) |-> Operand(q[2][i], q[3], i)]) \o Bare("hlt") :
     q \in {r \in (DOMAIN opMap) \X KindLists \X Valuations :
              r[3] = 1 \/ findMode(r[2]) \in {Mode[m] : m \in DOMAIN Mode}}}
  \cup {Bare(name) \o Bare("hlt") : name \in DOMAIN opMap}

\* one statement of a mode listed for its mnemonic, with one address or
\* immediate argument given by the label x: as x itself, as @<x or as @>x.
\* The statement is at main; x is defined behind it (a forward reference) or
\* before it.
ReferenceSources ==
  {(IF q[5]
    THEN Dir("addr", <<Imm(4660)>>) \o <<Lbl(START_POINT)>>
    ELSE Dir("addr", <<Imm(4660)>>) \o <<Lbl("x")>> \o Bare("hlt") \o <<Lbl(START_POINT)>>)
     \o Stmt(q[1], [i \in 1 .. Len(q[2]) |->
                      IF i # q[3] THEN Operand(q[2][i], 1, i)
                      ELSE IF q[2][i] = TokenType.ADDRESS THEN Lbl("x")
                      ELSE Part(q[4], "x")])
     \o (IF q[5] THEN <<Lbl("x")>> ELSE << >>) \o Bare("hlt") :
   q \in {r \in (DOMAIN opMap) \X KindLists \X (1 .. MaxArgs)
                  \X {LABEL_LSB, LABEL_MSB} \X BOOLEAN :
            /\ r[3] <= Len(r[2])
            /\ findMode(r[2]) \in DOMAIN opMap[r[1]]
            /\ \/ r[2][r[3]] = TokenType.IMMEDIATE
               \/ r[2][r[3]] = TokenType.ADDRESS /\ r[4] = LABEL_LSB}}

\* two label definitions, the first bound to the address a .addr gives
LabelSources ==
  {Dir("addr", <<Imm(q[1])>>) \o <<Lbl(q[2])>> \o Bare("hlt") \o <<Lbl(q[3])>> \o Bare("hlt") :
   q \in {0, 1, 512} \X {"x", "_l", START_POINT, "ktxt_putch"}
           \X {"x", "_l", START_POINT, "ktxt_putch"}}

\* a .byte or a .word with up to MaxArgs arguments; a .def and a use of the
\* name it defines
DirectiveSources ==
  {Dir(q[1], [i \in 1 .. q[2] |-> Operand(q[3], q[4], i)]) \o Bare("hlt") :
   q \in {"byte", "word"} \X (0 .. MaxArgs)
           \X {TokenType.IMMEDIATE, TokenType.ADDRESS} \X Valuations}
  \cup {Dir("def", << >>) \o <<createToken(TokenType.IDENTIFIER, 0, "k"), Imm(q)>>
          \o Stmt("mov", <<Reg(1), createToken(TokenType.IDENTIFIER, 0, "k")>>)
          \o Bare("hlt") :
        q \in {5, 90}}

Sources == InstructionSources \cup ReferenceSources \cup LabelSources \cup DirectiveSources

\* asm() of index.js
asm(source) ==
  assembleProgram(source, [labels |-> Kernel.labels, defines |-> Kernel.defines])

\* the image loadProgram is handed
ImageOf(a) == [code |-> a.program, main |-> a.main]

\* a button's click handler has run asm(), which returned or threw as a
\* tells, and then, if there is an image, the load that leaves the VM as
\* loaded
Clicked(a, loaded) ==
  /\ vm' = IF a.result = "ok" THEN Settle(loaded) ELSE vm
  /\ obs' = [SeeControl(obs) EXCEPT !.asm = a]

\* the Assemble button's handler, asm() having returned or thrown as a tells
AssembleClicked(a) == Clicked(a, loadProgram(vm, ImageOf(a)))

\* the Run button's handler, asm() having returned or thrown as a tells
RunClicked(a) == Clicked(a, loadProgramAndRun(vm, ImageOf(a)))

\* the Assemble button
AssembleClick(source) ==
  /\ ops = 0
  /\ HostEvent
  /\ AssembleClicked(asm(source))

\* the Run button
RunClick(source) ==
  /\ ops = 0
  /\ HostEvent
  /\ RunClicked(asm(source))

RunCallbackAsm == RunCallbackWithin(MaxAsmClock)

BatchCycleAsm == BatchCycleWithin(MaxAsmClock)

NextAsm ==
  \/ \E source \in Sources : AssembleClick(source)
  \/ \E source \in Sources : RunClick(source)
  \/ Step
  \/ RunCallbackAsm
  \/ BatchCycleAsm
  \/ BatchEnd

SpecAsm == Init /\ [][NextAsm]_vars

(***************************************************************************)
(* The Run button pressed, as the first host event, on a guest program     *)
(* that exercises the kernel, the renderer or one family of instructions;  *)
(* the Step button and the interval follow.                                *)
(***************************************************************************)
\* @main  call @ktxt_clear / hlt
kclear ==
  Image(<<Opcode.CALL_P, Lo(ktxt_clear), Hi(ktxt_clear), Opcode.HLT_O>>, PROGRAM_BASE)

\* @main  mov $8, @<s / mov $9, @>s / call @ktxt_print / hlt
\* @s     .byte 'H', 'I', 0
kprint ==
  Image(
    <<Opcode.MOV_AK, 8, Lo(PROGRAM_BASE + 10), Opcode.MOV_AK, 9, Hi(PROGRAM_BASE + 10),
    Opcode.CALL_P, Lo(ktxt_print), Hi(ktxt_print), Opcode.HLT_O, 72, 73, 0>>,
    PROGRAM_BASE)

\* @main  sei $0 / mov %e7c1, 'A' / mov %e7ff, 'z' / mov %e7c9, 200 / mov $1, 188
\* @l     dec $1 / brf @l
\*        not / hlt / not / hlt
text ==
  Image(
    <<Opcode.SEI_A, 0,
    Opcode.MOV_PK, Lo(TXT_DATA_ADDR + 1), Hi(TXT_DATA_ADDR + 1), 65,
    Opcode.MOV_PK, Lo(TXT_DATA_ADDR + 63), Hi(TXT_DATA_ADDR + 63), 122,
    Opcode.MOV_PK, Lo(TXT_DATA_ADDR + 9), Hi(TXT_DATA_ADDR + 9), 200,
    Opcode.MOV_AK, 1, 188,
    Opcode.DEC_A, 1, Opcode.BRF_P, Lo(PROGRAM_BASE + 17), Hi(PROGRAM_BASE + 17),
    Opcode.NOT_O, Opcode.HLT_O, Opcode.NOT_O, Opcode.HLT_O>>,
    PROGRAM_BASE)

\* @main  mov %0305, 0x77 / mov 0x10, 0x00 / mov 0x11, 0x03 / mov $3, 5 /
\*        mov $1, (0x10), $3 / mov $2, (0x10), 5 / hlt
indirect ==
  Image(
    <<Opcode.MOV_PK, 5, 3, 119, Opcode.MOV_KK, 16, 0, Opcode.MOV_KK, 17, 3,
    Opcode.MOV_AK, 3, 5,
    Opcode.MOV_AIB, 1 + 16 * 3, 16, Opcode.MOV_AIK, 2, 16, 5, Opcode.HLT_O>>,
    PROGRAM_BASE)

\* @main  mov 0x01, 0x77 / mov $1, 2 / mov $2, %ffff, 2 / mov $3, %ffff, $1 /
\*        mov 0x10, 0xff / mov 0x11, 0xff / mov $4, (0x10), $1 /
\*        mov %ffff, $1, 0x42 / mov %ffff, $1, $1 /
\*        mov $5, %0000, 1 / mov $6, %0000, $1 / mov %0300, $1, 0x42 / hlt
wrap ==
  Image(
    <<Opcode.MOV_KK, 1, 119, Opcode.MOV_AK, 1, 2,
    Opcode.MOV_APK, 255, 255, 2, 2, Opcode.MOV_APB, 255, 255, 3 + 16 * 1,
    Opcode.MOV_KK, 16, 255, Opcode.MOV_KK, 17, 255, Opcode.MOV_AIB, 4 + 16 * 1, 16,
    Opcode.MOV_PAK, 255, 255, 1, 66, Opcode.MOV_PAB, 255, 255, 1 + 16 * 1,
    Opcode.MOV_APK, 0, 0, 5, 1, Opcode.MOV_APB, 0, 0, 6 + 16 * 1,
    Opcode.MOV_PAK, 0, 3, 1, 66, Opcode.HLT_O>>,
    PROGRAM_BASE)

\* @main  mov $5, 3 / [not] / <op> @t, $5 or <op> @t, 5
\* @t     hlt (20 times)
\* with <op> one of jmp, brt, brf, and the not there when zero is asked for
JumpGuest(op, zero) ==
  Image(
    <<Opcode.MOV_AK, 5, 3>> \o (IF zero THEN <<Opcode.NOT_O>> ELSE <<>>)
      \o <<op, Lo(PROGRAM_BASE + 16), Hi(PROGRAM_BASE + 16), 5>>
      \o Repeat(<<Opcode.HLT_O>>, 20),
    PROGRAM_BASE)

JumpGuests ==
  {JumpGuest(op, zero) :
     op \in {Opcode.JMP_PA, Opcode.JMP_PK, Opcode.BRT_PA, Opcode.BRT_PK,
             Opcode.BRF_PA, Opcode.BRF_PK},
     zero \in BOOLEAN}

Bytes == 0 .. 255

\* the second operands of add: the least, the greatest, and the two about
\* the middle
Addends == {0, 1, 128, 255}

\* @main  mov $1, x / mov $2, y / add ... / hlt, the add in the form
\*        add $d, $1, $2   add $d, $1, y   add $d, $2   add $d, y
\* in the last two forms the first operand is what $d holds: x when d is 1
AddGuest(form, d, x, y) ==
  Image(
    <<Opcode.MOV_AK, 1, x, Opcode.MOV_AK, 2, y>>
      \o (CASE form = "ABC" -> <<Opcode.ADD_ABC, d + 16 * 1, 2>>
            [] form = "ABK" -> <<Opcode.ADD_ABK, d + 16 * 1, y>>
            [] form = "AB" -> <<Opcode.ADD_AB, d + 16 * 2>>
            [] form = "AK" -> <<Opcode.ADD_AK, d, y>>)
      \o <<Opcode.HLT_O>>,
    PROGRAM_BASE)

AddGuests ==
  {AddGuest(form, d, x, y) :
     form \in {"ABC", "ABK"}, d \in {0, 3}, x \in Bytes, y \in Addends}
  \cup {AddGuest(form, d, x, y) :
          form \in {"AB", "AK"}, d \in {0, 1}, x \in Bytes, y \in Addends}

Rol == [A |-> Opcode.ROL_A, K |-> Opcode.ROL_K, P |-> Opcode.ROL_P]

Ror == [A |-> Opcode.ROR_A, K |-> Opcode.ROR_K, P |-> Opcode.ROR_P]

\* @main  mov $2, 255 / add $2, c / mov <x>, v / <first> <x> / <second> <x> / hlt
\* with <x> a register, a zero-page byte or an address, and the add leaving
\* Carry at c
RotateGuest(kind, target, first, second, v, c) ==
  Image(
    <<Opcode.MOV_AK, 2, 255, Opcode.ADD_AK, 2, c>>
      \o (CASE kind = "A" -> <<Opcode.MOV_AK, target, v, first.A, target, second.A, target>>
            [] kind = "K" -> <<Opcode.MOV_KK, target, v, first.K, target, second.K, target>>
            [] kind = "P" -> <<Opcode.MOV_PK, Lo(target), Hi(target), v,
                               first.P, Lo(target), Hi(target),
                               second.P, Lo(target), Hi(target)>>)
      \o <<Opcode.HLT_O>>,
    PROGRAM_BASE)

\* the registers and locations rotated
RotateTargets ==
  {<<"A", 0>>, <<"A", 1>>, <<"K", 32>>, <<"P", 768>>, <<"P", INPUT_DATA_ADDR>>}

RotateGuests ==
  {RotateGuest(t[1], t[2], o[1], o[2], v, c) :
     t \in RotateTargets, o \in {<<Rol, Ror>>, <<Ror, Rol>>}, v \in Bytes, c \in {0, 1}}

\* @main  [mov $1, 1 /] not $a / hlt   or   [mov $1, 1 /] not / hlt
\* the mov leaves Zero at 0; without it Zero is 1, as reset left it
NotGuest(op, clear) ==
  Image(
    (IF clear THEN <<Opcode.MOV_AK, 1, 1>> ELSE <<>>)
      \o (IF op = Opcode.NOT_A THEN <<Opcode.NOT_A, 3>> ELSE <<Opcode.NOT_O>>)
      \o <<Opcode.HLT_O>>,
    PROGRAM_BASE)

NotGuests == {NotGuest(op, clear) : op \in {Opcode.NOT_A, Opcode.NOT_O}, clear \in BOOLEAN}

Guests == {kclear, kprint, text, indirect, wrap} \cup JumpGuests \cup NotGuests

\* the Run button, on the image of a guest
RunGuest(program) ==
  /\ ops = 0
  /\ HostEvent
  /\ vm' = Settle(loadProgramAndRun(vm, program))
  /\ obs' = SeeControl(obs)

\* @main  mov $3, v / lsh $3 / chy / brt @t / hlt
\* @t     hlt
ShiftGuest(v) ==
  Image(
    <<Opcode.MOV_AK, 3, v, Opcode.LSH_A, 3, Opcode.CHY_O,
      Opcode.BRT_P, Lo(PROGRAM_BASE + 16), Hi(PROGRAM_BASE + 16), Opcode.HLT_O>>
      \o Repeat(<<0>>, 6) \o <<Opcode.HLT_O>>,
    PROGRAM_BASE)

ShiftGuests == {ShiftGuest(v) : v \in Bytes}

NextShift ==
  \/ \E program \in ShiftGuests : RunGuest(program)
  \/ RunCallback
  \/ BatchCycle
  \/ BatchEnd

SpecShift == Init /\ [][NextShift]_vars

NextGuest ==
  \/ \E program \in Guests : RunGuest(program)
  \/ Step
  \/ RunCallback
  \/ BatchCycle
  \/ BatchEnd

SpecGuest == Init /\ [][NextGuest]_vars

\* the Run button pressed once on a guest that adds, and the interval left
\* to fire
NextAdd ==
  \/ \E program \in AddGuests : RunGuest(program)
  \/ RunCallback
  \/ BatchCycle
  \/ BatchEnd

SpecAdd == Init /\ [][NextAdd]_vars

\* the Run button pressed once on a guest that rotates, and the interval left
\* to fire
NextRotate ==
  \/ \E program \in RotateGuests : RunGuest(program)
  \/ RunCallback
  \/ BatchCycle
  \/ BatchEnd

SpecRotate == Init /\ [][NextRotate]_vars

(***************************************************************************)
(* The keyboard.  Keys go down and up between the callbacks of the         *)
(* interval and the clicks of the buttons, on a guest that reads the input *)
(* register.                                                               *)
(***************************************************************************)
\* keyMap of #initKeyboard, the KEY_ constants by their values
keyMap ==
  [a |-> 0, A |-> 0, ArrowLeft |-> 0,
   s |-> 1, S |-> 1, ArrowDown |-> 1,
   W |-> 2, w |-> 2, ArrowUp |-> 2,
   D |-> 3, d |-> 3, ArrowRight |-> 3,
   Z |-> 4, z |-> 4,
   X |-> 5, x |-> 5,
   Enter |-> 6,
   Backspace |-> 7]

\* the keydown listener: this.#input |= 1 << key
keydown(s, key) ==
  IF key \in DOMAIN keyMap
  THEN [s EXCEPT !.input = Bitwise("|", s.input, ShiftLeft(1, keyMap[key]))]
  ELSE s

\* the keyup listener: this.#input &= ~(1 << key)
keyup(s, key) ==
  IF key \in DOMAIN keyMap
  THEN [s EXCEPT !.input = IF Bit(s.input, keyMap[key]) = 1
                           THEN s.input - ShiftLeft(1, keyMap[key]) ELSE s.input]
  ELSE s

\* the keys pressed: two the map knows, of the lowest and of the highest
\* bit, and one it does not know
PressedKeys == {"a", "Backspace", "q"}

\* @main  mov %e700, 0x55 / mov $1, %e700 / mov $2, %e6ff, 1 / mov $3, 1 /
\*        mov $4, %e6ff, $3 / mov 0x10, 0x00 / mov 0x11, 0xe7 /
\*        mov $5, (0x10), $0 / hlt / mov $6, %e700 /
\*        mov $7, %e700 / hlt
inputs ==
  Image(
    <<Opcode.MOV_PK, Lo(INPUT_DATA_ADDR), Hi(INPUT_DATA_ADDR), 85,
    Opcode.MOV_AP, 1, Lo(INPUT_DATA_ADDR), Hi(INPUT_DATA_ADDR),
    Opcode.MOV_APK, Lo(INPUT_DATA_ADDR - 1), Hi(INPUT_DATA_ADDR - 1), 2, 1,
    Opcode.MOV_AK, 3, 1,
    Opcode.MOV_APB, Lo(INPUT_DATA_ADDR - 1), Hi(INPUT_DATA_ADDR - 1), 4 + 16 * 3,
    Opcode.MOV_KK, 16, Lo(INPUT_DATA_ADDR), Opcode.MOV_KK, 17, Hi(INPUT_DATA_ADDR),
    Opcode.MOV_AIB, 5 + 16 * 0, 16, Opcode.HLT_O,
    Opcode.MOV_AP, 6, Lo(INPUT_DATA_ADDR), Hi(INPUT_DATA_ADDR),
    Opcode.MOV_AP, 7, Lo(INPUT_DATA_ADDR), Hi(INPUT_DATA_ADDR),
    Opcode.HLT_O>>,
    PROGRAM_BASE)

KeyDown(key) ==
  /\ ~batch.active
  /\ vm' = keydown(vm, key)
  /\ UNCHANGED <<batch, obs, ops>>

KeyUp(key) ==
  /\ ~batch.active
  /\ vm' = keyup(vm, key)
  /\ UNCHANGED <<batch, obs, ops>>

RunInputs == RunGuest(inputs)

NextInput ==
  \/ RunInputs
  \/ \E key \in PressedKeys : KeyDown(key)
  \/ \E key \in PressedKeys : KeyUp(key)
  \/ Step
  \/ RunCallback
  \/ BatchCycle
  \/ BatchEnd

SpecInput == Init /\ [][NextInput]_vars

(***************************************************************************)
(* The Assemble or the Run button pressed on a text that defines the label *)
(* _l several times and refers to it before, between and after the         *)
(* definitions.  The text begins with main.                                *)
(***************************************************************************)
MaxItems == 4

\* the address the texts begin at: their statements cross a page boundary
LocalBase == PROGRAM_BASE + 250

\* a definition of _l; a reference to it as a whole address, as its low
\* byte, as its high byte.  Each referring statement emits three bytes.
LocalItem(kind) ==
  CASE kind = "def" -> <<Lbl("_l")>>
    [] kind = "ref" -> Stmt("jmp", <<Lbl("_l")>>)
    [] kind = "lsb" -> Stmt("mov", <<Reg(1), Part(LABEL_LSB, "_l")>>)
    [] kind = "msb" -> Stmt("mov", <<Reg(1), Part(LABEL_MSB, "_l")>>)

RECURSIVE LocalItems(_)
LocalItems(kinds) ==
  IF kinds = <<>> THEN <<>> ELSE LocalItem(Head(kinds)) \o LocalItems(Tail(kinds))

LocalLabelSources ==
  {Dir("addr", <<Imm(LocalBase)>>) \o <<Lbl(START_POINT)>> \o LocalItems(kinds) \o Bare("hlt") :
     kinds \in UNION {[1 .. n -> {"def", "ref", "lsb", "msb"}] : n \in 1 .. MaxItems}}

NextLocal ==
  \/ \E source \in LocalLabelSources : AssembleClick(source)
  \/ \E source \in LocalLabelSources : RunClick(source)
  \/ Step
  \/ RunCallbackAsm
  \/ BatchCycleAsm
  \/ BatchEnd

SpecLocal == Init /\ [][NextLocal]_vars

(***************************************************************************)
(* Texts with a statement whose leading word is in no opMap: the word is   *)
(* cut as an identifier by #assembleIdentifier.                            *)
(***************************************************************************)
\* a word that is no mnemonic, with its arguments
Unknown(name, args) == <<createToken(TokenType.IDENTIFIER, 0, name)>> \o Commas(args)

\* @main  mov $1, v / <word> <arguments> / hlt
\* with every list of argument kinds
UnknownSources ==
  {<<Lbl(START_POINT)>> \o Stmt("mov", <<Reg(1), Imm(q[3])>>)
     \o Unknown(q[1], [i \in 1 .. Len(q[2]) |-> Operand(q[2][i], 1, i)])
     \o Bare("hlt") :
   q \in {"sub", "mvo"} \X KindLists \X {1, 2}}

NextUnknown ==
  \/ \E source \in UnknownSources : AssembleClick(source)
  \/ \E source \in UnknownSources : RunClick(source)
  \/ Step
  \/ RunCallbackAsm
  \/ BatchCycleAsm
  \/ BatchEnd

SpecUnknown == Init /\ [][NextUnknown]_vars

(***************************************************************************)
(* Texts whose image holds bytes at and above the kernel's first address,  *)
(* assembled and loaded at any host event: the guest loaded before has     *)
(* written above the kernel's first address too.                           *)
(***************************************************************************)
\* where the texts place two bytes: the last address loadProgram copies and
\* the first it does not, the text cells, the IRQ vector, the last byte
\* before the reset vector and the reset vector
HighPlaces ==
  {KERNEL_START_ADDR - 1, TXT_DATA_ADDR, INT_START_ADDR, ROM_START_ADDR - 1, ROM_START_ADDR}

\* .addr place / .byte 0xAA, 0xBB / .addr 0x0200 / @main mov %target, v / hlt
HighSource(place, target, v) ==
  Dir("addr", <<Imm(place)>>) \o Dir("byte", <<Imm(170), Imm(187)>>)
    \o Dir("addr", <<Imm(PROGRAM_BASE)>>) \o <<Lbl(START_POINT)>>
    \o Stmt("mov", <<Addr(target), Imm(v)>>) \o Bare("hlt")

HighSources ==
  {HighSource(q[1], q[2], 7) :
     q \in HighPlaces \X {KERNEL_START_ADDR, TXT_DATA_ADDR + 1, INT_START_ADDR}}

\* the Assemble button, at any host event
AssembleHigh(source) ==
  /\ HostEvent
  /\ AssembleClicked(asm(source))

\* the Run button, at any host event
RunHigh(source) ==
  /\ HostEvent
  /\ RunClicked(asm(source))

NextHigh ==
  \/ \E source \in HighSources : AssembleHigh(source)
  \/ \E source \in HighSources : RunHigh(source)
  \/ Step
  \/ RunCallbackAsm
  \/ BatchCycleAsm
  \/ BatchEnd

SpecHigh == Init /\ [][NextHigh]_vars

(***************************************************************************)
(* The Run button pressed once on a guest that calls ktxt_clear, and the   *)
(* interval left to fire until the call has returned.                      *)
(***************************************************************************)
MaxClearClock == 2400

\* the cycles a guest of ClearGuests and its call of ktxt_clear may take
ClearBudget == 1900

\* @main  mov %e7bf, c / mov %e7c5, 'x' / mov $e, w / mov $8, v /
\*        call @ktxt_clear / hlt
\* the guest loads $8 right before the call
ClearGuest(c, v, w) ==
  Image(
    <<Opcode.MOV_PK, Lo(TXT_CURSOR_POS), Hi(TXT_CURSOR_POS), c,
      Opcode.MOV_PK, Lo(TXT_DATA_ADDR + 5), Hi(TXT_DATA_ADDR + 5), 120,
      Opcode.MOV_AK, 14, w, Opcode.MOV_AK, 8, v,
      Opcode.CALL_P, Lo(ktxt_clear), Hi(ktxt_clear), Opcode.HLT_O>>,
    PROGRAM_BASE)

\* the cursor, $8 and $e the call finds
ClearGuests == {ClearGuest(c, v, w) : c \in {0, 1, 63, 64, 255}, v \in {0, 65, 255}, w \in {0, 7}}

RunCallbackClear == RunCallbackWithin(MaxClearClock)

BatchCycleClear == BatchCycleWithin(MaxClearClock)

NextClear ==
  \/ \E program \in ClearGuests : RunGuest(program)
  \/ RunCallbackClear
  \/ BatchCycleClear
  \/ BatchEnd

SpecClear == Init /\ [][NextClear]_vars

(***************************************************************************)
(* The Run button pressed once on a guest that compares and branches in a  *)
(* loop, its interrupt handler a single ret, and the interval left to fire *)
(* until the first interrupt has been delivered.                           *)
(***************************************************************************)
MaxCompareClock == 2700

\* @main  mov %fffc, @<irq / mov %fffd, @>irq / mov $3, 255 / add $3, 1 /
\*        mov $1, k / mov $2, 0 (pad times)
\* @l     equ $1, $0 / brt @t / jmp @l
\* @t     hlt
\* @irq   ret
\* the add leaves Carry at 1; the padding moves the interrupt about in the
\* loop
CompareGuest(k, pad) ==
  Image(
    <<Opcode.MOV_PK, Lo(INT_START_ADDR), Hi(INT_START_ADDR), Lo(PROGRAM_BASE + 100),
      Opcode.MOV_PK, Lo(INT_START_ADDR + 1), Hi(INT_START_ADDR + 1), Hi(PROGRAM_BASE + 100),
      Opcode.MOV_AK, 3, 255, Opcode.ADD_AK, 3, 1, Opcode.MOV_AK, 1, k>>
      \o Repeat(<<Opcode.MOV_AK, 2, 0>>, pad)
      \o <<Opcode.EQU_AB, 1 + 16 * 0,
           Opcode.BRT_P, Lo(PROGRAM_BASE + 17 + 3 * pad + 8), Hi(PROGRAM_BASE + 17 + 3 * pad + 8),
           Opcode.JMP_P, Lo(PROGRAM_BASE + 17 + 3 * pad), Hi(PROGRAM_BASE + 17 + 3 * pad),
           Opcode.HLT_O>>
      \o Repeat(<<0>>, 100 - (17 + 3 * pad + 9))
      \o <<Opcode.RET_O>>,
    PROGRAM_BASE)

CompareGuests == {CompareGuest(k, pad) : k \in {1, 129}, pad \in 0 .. 2}

RunCallbackCompare == RunCallbackWithin(MaxCompareClock)

BatchCycleCompare == BatchCycleWithin(MaxCompareClock)

NextCompare ==
  \/ \E program \in CompareGuests : RunGuest(program)
  \/ RunCallbackCompare
  \/ BatchCycleCompare
  \/ BatchEnd

SpecCompare == Init /\ [][NextCompare]_vars

TypeOK ==
  /\ vm.pc \in 0 .. 65535
  /\ \A r \in DOMAIN vm.registers : vm.registers[r] \in 0 .. 255
  /\ \A a \in DOMAIN vm.memory : vm.memory[a] \in 0 .. 255 /\ vm.memory[a] # BootCell(a)
  /\ \A f \in DOMAIN vm.flags : vm.flags[f] \in {0, 1}

(***************************************************************************)
(* Properties.                                                             *)
(***************************************************************************)
StackPage == STACK_BASE .. (STACK_BASE + 255)

\* the cycle that moved the clock from before to after took it to or past a
\* multiple of the interrupt period
Crosses(before, after) ==
  (after \div CYCLES_PER_INTERRUPT) > (before \div CYCLES_PER_INTERRUPT)

\* C1: while the interval keeps firing, the Interrupt flag is never found set
\* at more than 960 cycle boundaries in a row with no interrupt dispatched at
\* any of them, whatever the flag was when an earlier period elapsed.
C1_InterruptCadence == obs.enabledRun <= CYCLES_PER_INTERRUPT

\* C2: the Interrupt flag was set at the moment of the latest dispatch of an
\* interrupt, by runCallback or by step.
C2_InterruptOnlyWhenEnabled == obs.irq.n > 0 => obs.irq.flag # 0

\* C3: when the handler of an interrupt executes ret with the stack as the
\* dispatch left it, PC and SP are back at their values at the dispatch.
C3_InterruptRoundTrip ==
  obs.irqRet.done => obs.irqRet.pc = obs.irq.pc /\ obs.irqRet.sp = obs.irq.sp

\* the last two instructions were a call and the ret of its callee
CallThenRet ==
  /\ obs.prev.op = Opcode.CALL_P /\ obs.last.op = Opcode.RET_O
  /\ ~obs.irqBetween
  /\ obs.last.opPC = obs.prev.pcAfter

\* C4: a call whose callee immediately executes ret returns to the byte after
\* the 3-byte call, with SP restored, whatever SP was at the call.
C4_CallRet ==
  CallThenRet =>
    /\ obs.last.pcAfter = (obs.prev.opPC + 3) % MEMORY_SIZE
    /\ obs.last.spAfter = obs.prev.opSP

\* the last two instructions were a push and a pop of a register
PushThenPop ==
  /\ obs.prev.op = Opcode.PUSH_A /\ obs.last.op = Opcode.POP_A
  /\ ~obs.irqBetween

\* C5: a push followed by a pop yields the pushed byte and restores SP,
\* whatever SP was, and both touch the stack page only.
C5_PushPop ==
  PushThenPop =>
    /\ obs.last.popped = obs.prev.pushed
    /\ obs.last.spAfter = obs.prev.opSP
    /\ obs.prev.opStack \subseteq StackPage
    /\ obs.last.opStack \subseteq StackPage

\* C6: once hlt has been dispatched, in a batch or by step, no interval is
\* live until the user acts.
C6_HltPauses == obs.last.op = Opcode.HLT_O => vm.intervals = {}

\* C7: once a byte with no instruction implementation has been fetched as an
\* opcode, the VM is not running and no interval is live.
C7_UnknownOpcodeStops == obs.last.thrown => ~vm.running /\ vm.intervals = {}

\* C8: step dispatches one instruction, and an interrupt exactly when that
\* instruction takes the clock to or past a multiple of 960.
C8_StepInterrupt ==
  obs.step.done =>
    /\ obs.step.ops = 1
    /\ obs.step.irq <=> Crosses(obs.step.before, obs.step.after)

\* C9: a batch that has returned without hlt having stopped the VM has
\* dispatched 240 instructions.
C9_BatchSize == (obs.ended /\ ~obs.cut) => obs.cycles = CYCLES_PER_FRAME

\* C10: register 0 holds 0 in every reachable state.
C10_RegisterZero == getRegister(vm, 0) = 0

\* mov $0, 0x2A of the guest "zero" was the last instruction dispatched
C10_Witness ==
  /\ obs.last.op = Opcode.MOV_AK
  /\ ReadCell(vm.memory, obs.last.opPC + 1) = 0
  /\ ReadCell(vm.memory, obs.last.opPC + 2) = 42
  /\ getRegister(vm, 0) = 0

\* C11: every write the latest handler made through setMemory or setRegister
\* left Zero = (V mod 256 = 0) and Negative = bit 7 of V, V being the value
\* written; a write aimed at register 0 stored 0 and left Zero = 1.
C11_WriteFlags ==
  \A w \in obs.last.writes :
    IF w.reg = 0
    THEN w.stored = 0 /\ w.Z = 1
    ELSE /\ w.Z = (IF ToUint8(w.to) = 0 THEN 1 ELSE 0)
         /\ w.N = Bit(w.to, 7)

\* a guest stored a byte with bit 7 set in memory, and one aimed a non-zero
\* value at register 0
C11_Witness ==
  \/ \E w \in obs.last.writes : w.reg = -1 /\ ToUint8(w.to) >= 128 /\ w.N = 1
  \/ \E w \in obs.last.writes : w.reg = 0 /\ ToUint8(w.to) # 0 /\ w.Z = 1

\* the first instruction since the image of the latest assembly was loaded
\* has been fetched, from an address the assembler emitted a statement at
FetchedFirst ==
  /\ obs.asm.result = "ok"
  /\ obs.last.op # -1
  /\ vm.clock = obs.last.len
  /\ obs.last.opPC \in DOMAIN obs.asm.debugInfo

\* and its handler has run
DecodedFirst == FetchedFirst /\ ~obs.last.thrown

\* C12: for the statement the assembler emitted at the address the VM fetched
\* its first instruction from, the operands the handler's reader returned are
\* the statement's values in the order written (the values of the arguments
\* that were known when the statement was emitted), the opcode fetched is
\* the one emitted, and the fetches made are as many as the bytes emitted.
C12_EncodeDecode ==
  DecodedFirst =>
    /\ Len(obs.last.args) = Len(obs.asm.debugInfo[obs.last.opPC].values)
    /\ \A i \in 1 .. Len(obs.last.args) :
         obs.asm.debugInfo[obs.last.opPC].args[i].fwd = ""
           => obs.last.args[i] = obs.asm.debugInfo[obs.last.opPC].values[i]
    /\ \E t \in obs.asm.tried :
         /\ t.at = obs.last.opPC /\ t.ok
         /\ obs.last.op = t.first
         /\ obs.last.len = t.next - t.at

C12_Witness ==
  /\ DecodedFirst
  /\ Len(obs.last.args) = 3
  /\ obs.last.args[2] > 255
  /\ obs.last.args[2] % 256 # obs.last.args[2] \div 256

\* C13: the opcode of every statement the assembler emits has a handler in
\* the VM: the first instruction of a loaded image, fetched from the address
\* of an emitted statement, is dispatched without a TypeError.
C13_EmittedOpcodesHandled == FetchedFirst => ~obs.last.thrown

\* C14: every statement whose argument kinds make a mode listed for its
\* mnemonic is emitted, and the byte then at the cursor it began at is the
\* opcode the table gives for the mnemonic and the mode.
C14_ListedModesAssemble ==
  \A t \in obs.asm.tried :
    t.mode \in DOMAIN opMap[t.op] => t.ok /\ t.first = opMap[t.op][t.mode]

\* C17: a text with a statement whose argument kinds make no mode listed for
\* its mnemonic (no mode at all, or the proper prefix of one) is refused: the
\* assembler returns null, it neither throws nor returns an image.
C17_UnsupportedRefused ==
  \A t \in obs.asm.tried :
    t.mode \notin DOMAIN opMap[t.op] => obs.asm.result = "null"

\* the value argument i of the statement first executed stands for: the
\* address of the label it names, or that address's low or high byte
Referred(arg) ==
  IF arg.fwd = "@" THEN obs.asm.labels[arg.name]
  ELSE IF arg.fwd = LABEL_LSB THEN obs.asm.labels[arg.name] % 256
  ELSE (obs.asm.labels[arg.name] \div 256) % 256

\* C15: once assembly has succeeded, an operand written as a reference to a
\* label defined further on (@name, @<name or @>name) holds what it stands
\* for: the VM, executing the statement first, reads the label's address, or
\* its low or high byte, as that operand.
C15_ForwardReferencesPatched ==
  DecodedFirst =>
    \A i \in 1 .. Len(obs.last.args) :
      obs.asm.debugInfo[obs.last.opPC].args[i].fwd # ""
        => obs.last.args[i] = Referred(obs.asm.debugInfo[obs.last.opPC].args[i])

\* C16: a text that defines again a label whose name does not begin with "_"
\* is refused, whatever address the label was bound to and whether it was
\* bound by the text or by the labels handed in.
C16_RedefinitionRefused ==
  \A r \in obs.asm.redefined :
    ~StartsWithUnderscore(r.label) => obs.asm.result = "null"

\* the comma-separated arguments the text has from its token idx + 1 on
RECURSIVE ArgsAt(_, _)
ArgsAt(source, idx) ==
  IF idx + 1 > Len(source) \/ source[idx + 1].type \notin Kinds THEN << >>
  ELSE <<source[idx + 1].lexeme>>
         \o (IF idx + 2 <= Len(source) /\ source[idx + 2].type = TokenType.COMMA
             THEN ArgsAt(source, idx + 2) ELSE << >>)

\* the bytes of the image from at on, n of them
BytesAt(program, at, n) == [i \in 1 .. n |-> LoadByte(program, at + i - 1)]

RECURSIVE LoHi(_)
LoHi(words) ==
  IF words = << >> THEN << >>
  ELSE <<Head(words) % 256, (Head(words) \div 256) % 256>> \o LoHi(Tail(words))

\* C18: a .byte with n comma-separated arguments advances the cursor by n and
\* leaves the n bytes in order; a .word with n arguments advances it by 2n
\* and leaves low byte then high byte of each.
C18_DirectiveBytes ==
  \A d \in obs.asm.directives :
    /\ d.name = "byte" =>
         /\ d.next = d.at + Len(ArgsAt(obs.asm.source, d.idx))
         /\ BytesAt(obs.asm.program, d.at, Len(ArgsAt(obs.asm.source, d.idx)))
              = [i \in 1 .. Len(ArgsAt(obs.asm.source, d.idx)) |->
                   ArgsAt(obs.asm.source, d.idx)[i] % 256]
    /\ d.name = "word" =>
         /\ d.next = d.at + 2 * Len(ArgsAt(obs.asm.source, d.idx))
         /\ BytesAt(obs.asm.program, d.at, 2 * Len(ArgsAt(obs.asm.source, d.idx)))
              = LoHi(ArgsAt(obs.asm.source, d.idx))

\* the address the latest assembly bound main to, 0 if it bound none
MainAddress ==
  IF START_POINT \in DOMAIN obs.asm.labels THEN obs.asm.labels[START_POINT] ELSE 0

\* C19: when a text has assembled and its image is loaded, the reset vector
\* holds the low and the high byte of the address of main (0 without main);
\* run leaves PC at that address, and the first instruction executed, by the
\* interval or by step, is fetched from it.
C19_StartsAtMain ==
  obs.asm.result = "ok" =>
    /\ vm.clock = 0 =>
         /\ getMemory(vm, ROM_START_ADDR) = MainAddress % 256
         /\ getMemory(vm, ROM_START_ADDR + 1) = (MainAddress \div 256) % 256
         /\ vm.running => vm.pc = MainAddress
    /\ (obs.last.op # -1 /\ vm.clock = obs.last.len) => obs.last.opPC = MainAddress

C19_Witness ==
  /\ obs.asm.result = "ok"
  /\ MainAddress = 4660
  /\ obs.last.op # -1 /\ vm.clock = obs.last.len /\ obs.last.opPC = 4660

\* what loading is said to fix of the VM: the registers with SP, PC, the
\* four flags, the cycle counters and the memory
Loaded(s) ==
  [registers |-> s.registers, pc |-> s.pc, flags |-> s.flags,
   clock |-> s.clock, cyclesSinceInterrupt |-> s.cyclesSinceInterrupt,
   memory |-> s.memory]

\* C20: right after loadProgram on an image the VM is, in its registers, PC,
\* SP, flags, cycle counters and memory, as loadProgram on that image leaves
\* a VM just constructed, whatever was loaded and run before.
C20_LoadHistoryIndependent ==
  obs.loaded # "" =>
    Loaded(vm) = Loaded(loadProgram(Constructed, Programs[obs.loaded]))

\* C21: when loadProgram has returned, and with it the reset it makes, every
\* byte of 0xE000..0xE6FF is the byte of the assembled kernel image, whatever
\* a guest wrote there before.
C21_KernelRestored ==
  obs.loaded # "" =>
    \A a \in KERNEL_START_ADDR .. (INPUT_DATA_ADDR - 1) : getMemory(vm, a) = BootCell(a)

\* the address an indirect load reads: the pointer the zero page held at
\* i and (i + 1) mod 256 when the instruction was fetched, plus the offset
IndirectAddress(o) ==
  getMemory(o.before, o.args[2]) + 256 * getMemory(o.before, (o.args[2] + 1) % 256)
    + (IF o.op = Opcode.MOV_AIB THEN getRegister(o.before, o.args[3]) ELSE o.args[3])

\* C22: when mov A, (I), B or mov A, (I), K has executed, A not register 0,
\* register A holds the byte memory held at pointer plus offset.
C22_IndirectLoad ==
  (/\ obs.last.op \in {Opcode.MOV_AIB, Opcode.MOV_AIK}
   /\ ~obs.last.thrown
   /\ obs.last.args[1] # 0
   /\ InRange(IndirectAddress(obs.last)))
    => getRegister(vm, obs.last.args[1]) = getMemory(obs.last.before, IndirectAddress(obs.last))

\* the addresses of the statements of ktxt_clear from behind its opening
\* sei $0 to its closing sei, and those of ktxt_print likewise
ClearSection == (ktxt_clear + 2) .. (ktxt_print - 2)

PrintSection == (ktxt_print + 2) .. ktxt_print_f

\* C23: while the next statement of ktxt_clear or of ktxt_print is one
\* between its opening sei $0 and its closing sei, the Interrupt flag is
\* clear; and no interrupt has been dispatched with PC at such a statement.
C23_KernelSectionsExclude ==
  /\ vm.pc \in ClearSection \cup PrintSection => getFlag(vm, "Interrupt") = 0
  /\ obs.irq.n > 0 => obs.irq.pc \notin ClearSection \cup PrintSection

\* the address a load reads, or -1 for an instruction that is no load
LoadAddress(o) ==
  CASE o.op = Opcode.MOV_AP -> o.args[2]
    [] o.op = Opcode.MOV_APK -> o.args[2] + o.args[3]
    [] o.op = Opcode.MOV_APB -> o.args[2] + getRegister(o.before, o.args[3])
    [] o.op = Opcode.MOV_AIB -> IndirectAddress(o)
    [] OTHER -> -1

ReadsInput(o) == ~o.thrown /\ o.args # <<>> /\ LoadAddress(o) = INPUT_DATA_ADDR

OffsetAddress(o) ==
  CASE o.op \in {Opcode.MOV_APK, Opcode.MOV_APB} -> LoadAddress(o)
    [] o.op = Opcode.MOV_AIB -> IndirectAddress(o)
    [] o.op \in {Opcode.MOV_PAB, Opcode.MOV_PAK} ->
         o.args[1] + getRegister(o.before, o.args[2])
    [] OTHER -> -1

\* C25: a mov with a base and an offset loads the byte memory held at
\* (base + offset) mod 65536 into its register (register 0 aside), or
\* stores its value there.
C25_AddressesMasked ==
  (~obs.last.thrown /\ OffsetAddress(obs.last) # -1) =>
    IF obs.last.op \in {Opcode.MOV_PAB, Opcode.MOV_PAK}
    THEN getMemory(vm, OffsetAddress(obs.last) % 65536)
           = (IF obs.last.op = Opcode.MOV_PAB
              THEN getRegister(obs.last.before, obs.last.args[3])
              ELSE obs.last.args[3])
    ELSE obs.last.args[1] # 0
           => getRegister(vm, obs.last.args[1])
                = getMemory(obs.last.before, OffsetAddress(obs.last) % 65536)

JumpsPA == {Opcode.JMP_PA, Opcode.BRT_PA, Opcode.BRF_PA}
JumpsPK == {Opcode.JMP_PK, Opcode.BRT_PK, Opcode.BRF_PK}

\* the condition of the jump or branch o held when it was fetched
Taken(o) ==
  CASE o.op \in {Opcode.BRT_PA, Opcode.BRT_PK} -> getFlag(o.before, "Zero") # 0
    [] o.op \in {Opcode.BRF_PA, Opcode.BRF_PK} -> getFlag(o.before, "Zero") = 0
    [] OTHER -> TRUE

\* C30: jmp P, A leaves PC at (P + the value register A holds) mod 65536 and
\* jmp P, K at (P + K) mod 65536; brt and brf whose condition holds leave it
\* at the same target.
C30_JumpTargets ==
  (obs.last.op \in JumpsPA \cup JumpsPK /\ ~obs.last.thrown /\ Taken(obs.last)) =>
    obs.last.pcAfter
      = (obs.last.args[1]
           + (IF obs.last.op \in JumpsPA
              THEN getRegister(obs.last.before, obs.last.args[2])
              ELSE obs.last.args[2])) % 65536

Adds == {Opcode.ADD_ABC, Opcode.ADD_ABK, Opcode.ADD_AB, Opcode.ADD_AK}

\* the sum of the two operands the add o was given
AddSum(o) ==
  CASE o.op = Opcode.ADD_ABC ->
         getRegister(o.before, o.args[2]) + getRegister(o.before, o.args[3])
    [] o.op = Opcode.ADD_ABK -> getRegister(o.before, o.args[2]) + o.args[3]
    [] o.op = Opcode.ADD_AB ->
         getRegister(o.before, o.args[1]) + getRegister(o.before, o.args[2])
    [] o.op = Opcode.ADD_AK -> getRegister(o.before, o.args[1]) + o.args[2]
    [] OTHER -> 0

AddCarry(o) == getFlag(vm, "Carry") = (IF AddSum(o) > 255 THEN 1 ELSE 0)

\* C27, as stated: every form of add stores (x + y) mod 256 in its
\* destination register and sets Carry to 1 exactly when x + y > 255.
C27_AddStated ==
  (obs.last.op \in Adds /\ ~obs.last.thrown) =>
    /\ getRegister(vm, obs.last.args[1]) = AddSum(obs.last) % 256
    /\ AddCarry(obs.last)

\* C27: every form of add sets Carry to 1 exactly when x + y > 255 and
\* stores (x + y) mod 256 in its destination register, unless the
\* destination is register 0, which stays 0.
C27_AddWraps ==
  (obs.last.op \in Adds /\ ~obs.last.thrown) =>
    /\ getRegister(vm, obs.last.args[1])
         = (IF obs.last.args[1] = 0 THEN 0 ELSE AddSum(obs.last) % 256)
    /\ AddCarry(obs.last)

C27_Witness ==
  /\ obs.last.op = Opcode.ADD_ABK /\ ~obs.last.thrown
  /\ obs.last.args = <<3, 1, 128>>
  /\ AddSum(obs.last) = 328
  /\ getRegister(vm, 3) = 72
  /\ getFlag(vm, "Carry") = 1

\* the rotation that undoes the rotation op
Unrotate(op) ==
  CASE op = Opcode.ROL_A -> Opcode.ROR_A [] op = Opcode.ROL_K -> Opcode.ROR_K
    [] op = Opcode.ROL_P -> Opcode.ROR_P [] op = Opcode.ROR_A -> Opcode.ROL_A
    [] op = Opcode.ROR_K -> Opcode.ROL_K [] op = Opcode.ROR_P -> Opcode.ROL_P
    [] OTHER -> -1

\* the last two instructions were a rotation and, immediately after it, the
\* opposite rotation of the same register or location
RotatedBack ==
  /\ Unrotate(obs.prev.op) # -1 /\ obs.last.op = Unrotate(obs.prev.op)
  /\ obs.last.args = obs.prev.args
  /\ ~obs.prev.thrown /\ ~obs.last.thrown /\ ~obs.irqBetween

\* what the register or location the rotation o names reads as in s
Rotated(s, o) ==
  IF o.op \in {Opcode.ROL_A, Opcode.ROR_A}
  THEN getRegister(s, o.args[1])
  ELSE getMemory(s, o.args[1])

\* the rotation o names register 0 or the input port, which keep no write
RotatesReadOnly(o) ==
  o.args[1] = (IF o.op \in {Opcode.ROL_A, Opcode.ROR_A} THEN 0 ELSE INPUT_DATA_ADDR)

RotationUndone ==
  /\ Rotated(vm, obs.last) = Rotated(obs.prev.before, obs.prev)
  /\ getFlag(vm, "Carry") = getFlag(obs.prev.before, "Carry")

\* C28, as stated: rol immediately followed by ror of the same register or
\* memory location, or ror followed by rol, restores the byte and Carry.
C28_RotateStated == RotatedBack => RotationUndone

\* C28: rol immediately followed by ror, or ror by rol, of the same register
\* other than register 0 or the same memory location other than the input
\* port restores the byte and Carry.
C28_RotateInverse == (RotatedBack /\ ~RotatesReadOnly(obs.last)) => RotationUndone

C28_Witness ==
  /\ RotatedBack /\ obs.prev.op = Opcode.ROL_K /\ obs.prev.args = <<32>>
  /\ getMemory(obs.prev.before, 32) = 129 /\ getFlag(obs.prev.before, "Carry") = 1
  /\ getMemory(obs.last.before, 32) = 3 /\ getFlag(obs.last.before, "Carry") = 1
  /\ getMemory(vm, 32) = 129 /\ getFlag(vm, "Carry") = 1

\* the framebuffer byte of pixel (8x + b, 8y + r) is bit 7 - b of row r of
\* the glyph of the character in cell (x, y)
CellRendered(x, y) ==
  LET c == getMemory(vm, TXT_DATA_ADDR + 8 * y + x)
  IN  c < 128 =>
        \A r \in 0 .. 7, b \in 0 .. 7 :
          getMemory(vm, SCREEN_DATA_ADDR + 64 * (8 * y + r) + 8 * x + b)
            = Bit(getMemory(vm, FONT_START_ADDR + 8 * c + r), 7 - b)

\* C29: after a text render, for every cell (x, y) holding a character
\* c < 128 and every row r and column b, the framebuffer byte at
\* 0xEC00 + 64 * (8y + r) + 8x + b is bit 7 - b of the font byte at
\* 0xE800 + 8c + r.
C29_TextRendered ==
  (obs.step.done /\ obs.step.irq) => \A x \in 0 .. 7, y \in 0 .. 7 : CellRendered(x, y)

\* the 'A' of cell (1, 0) was rendered: row 1 of its glyph is 00111100
C29_Witness ==
  /\ obs.step.done /\ obs.step.irq
  /\ getMemory(vm, TXT_DATA_ADDR + 1) = 65
  /\ getMemory(vm, FONT_START_ADDR + 8 * 65 + 1) = 60
  /\ [b \in 0 .. 7 |-> getMemory(vm, SCREEN_DATA_ADDR + 64 * 1 + 8 * 1 + b)]
       = [b \in 0 .. 7 |-> IF b \in 2 .. 5 THEN 1 ELSE 0]
  /\ getMemory(vm, TXT_DATA_ADDR + 63) = 122

(***************************************************************************)
(* The Assemble or the Run button pressed on a statement with the operand  *)
(* $s.                                                                     *)
(***************************************************************************)
\* the tokens #assembleToken yields for "$s": #assembleRegister peeks the s
\* and returns the register SP without consuming it, and the s is read
\* again, as an identifier
RegS == <<Reg(SP), createToken(TokenType.IDENTIFIER, 0, "s")>>

\* one statement of every mnemonic that takes one register, with $s; one of
\* every mnemonic that takes two, with $s the second or the first; hlt
\* behind each
StackPointerSources ==
  {<<createToken(TokenType.INSTRUCTION, 0, name)>> \o RegS \o Bare("hlt") :
     name \in {n \in DOMAIN opMap : Mode.A \in DOMAIN opMap[n]}}
  \cup {Stmt(name, <<Reg(2)>>) \o <<createToken(TokenType.COMMA, 0, "")>> \o RegS
          \o Bare("hlt") :
        name \in {n \in DOMAIN opMap : Mode.AB \in DOMAIN opMap[n]}}
  \cup {<<createToken(TokenType.INSTRUCTION, 0, name)>> \o RegS
          \o <<createToken(TokenType.COMMA, 0, ""), Reg(2)>> \o Bare("hlt") :
        name \in {n \in DOMAIN opMap : Mode.AB \in DOMAIN opMap[n]}}

NextStack ==
  \/ \E source \in StackPointerSources : AssembleClick(source)
  \/ \E source \in StackPointerSources : RunClick(source)
  \/ Step
  \/ RunCallbackAsm
  \/ BatchCycleAsm
  \/ BatchEnd

SpecStack == Init /\ [][NextStack]_vars

\* C26: the first instruction of a loaded image, assembled from a statement
\* with the operand $s, was handed the stack pointer register where the $s
\* stands.
C26_StackPointerOperand ==
  DecodedFirst =>
    \A i \in 1 .. Len(obs.asm.debugInfo[obs.last.opPC].args) :
      obs.asm.debugInfo[obs.last.opPC].args[i] = Reg(SP)
        => (i <= Len(obs.last.args) /\ obs.last.args[i] = SP)

\* the latest instruction has run and nothing after it has touched the VM:
\* the step that ran it did not go on to render and raise an interrupt
JustRan(opcodes) == obs.last.op \in opcodes /\ ~obs.last.thrown /\ ~obs.step.irq

\* C31: not inverts the Zero flag; not A inverts it and leaves the new value
\* of the flag in register A.
C31_NotInverts ==
  JustRan({Opcode.NOT_A, Opcode.NOT_O}) =>
    /\ getFlag(vm, "Zero") = 1 - getFlag(obs.last.before, "Zero")
    /\ obs.last.op = Opcode.NOT_A
         => getRegister(vm, obs.last.args[1]) = getFlag(vm, "Zero")

\* the latest two instructions were first and then, with no interrupt between
\* them, second
RanInTurn(first, second) ==
  /\ obs.prev.op = first /\ ~obs.prev.thrown
  /\ JustRan({second}) /\ ~obs.irqBetween

\* C32: lsh A stores (2v) mod 256, v being what register A held, and sets
\* Carry to bit 7 of v; a chy right after it sets Zero to that Carry and
\* leaves Carry alone; a brt P right after the chy goes to P exactly when
\* the Carry it found is 1, and to the next instruction otherwise.
C32_ShiftCarryBranch ==
  /\ JustRan({Opcode.LSH_A}) =>
       /\ getRegister(vm, obs.last.args[1])
            = (2 * getRegister(obs.last.before, obs.last.args[1])) % 256
       /\ getFlag(vm, "Carry") = Bit(getRegister(obs.last.before, obs.last.args[1]), 7)
  /\ RanInTurn(Opcode.LSH_A, Opcode.CHY_O) =>
       /\ getFlag(vm, "Carry") = Bit(getRegister(obs.prev.before, obs.prev.args[1]), 7)
       /\ getFlag(vm, "Carry") = getFlag(obs.last.before, "Carry")
       /\ getFlag(vm, "Zero") = getFlag(vm, "Carry")
  /\ RanInTurn(Opcode.CHY_O, Opcode.BRT_P) =>
       /\ getFlag(vm, "Carry") = getFlag(obs.last.before, "Carry")
       /\ obs.last.pcAfter = (IF getFlag(obs.last.before, "Carry") = 1
                              THEN obs.last.args[1]
                              ELSE obs.last.opPC + 3)

\* register 3 held 0x81: the lsh left 0x02 and Carry = 1, the chy Zero = 1,
\* and the brt was taken
C32_Witness ==
  /\ RanInTurn(Opcode.CHY_O, Opcode.BRT_P)
  /\ getRegister(vm, 3) = 2
  /\ getFlag(vm, "Carry") = 1 /\ getFlag(vm, "Zero") = 1
  /\ obs.last.pcAfter = obs.last.args[1]
  /\ obs.last.pcAfter = PROGRAM_BASE + 16

\* in the token list t: token i defines a label; token i refers to one, as
\* an argument of a statement
DefinesAt(t, i) ==
  t[i].type = TokenType.LABEL /\ t[i - 1].type \notin {TokenType.INSTRUCTION, TokenType.COMMA}

RefersAt(t, i) ==
  /\ t[i].type = TokenType.LABEL \/ (t[i].type = TokenType.IMMEDIATE /\ t[i].part # "")
  /\ t[i - 1].type \in {TokenType.INSTRUCTION, TokenType.COMMA}

\* the address token i of a text of LocalLabelSources stands at: every
\* statement before it emitted three bytes
LocalAddress(t, i) ==
  LocalBase + 3 * Cardinality({j \in 1 .. (i - 1) : t[j].type = TokenType.INSTRUCTION})

\* the definition a reference at token i is to resolve to: the latest of its
\* label before it, or the first after it when none is before it; 0 when
\* there is none
LocalDefinition(t, i) ==
  LET before == {j \in 2 .. (i - 1) : DefinesAt(t, j) /\ t[j].name = t[i].name}
      after == {j \in (i + 1) .. Len(t) : DefinesAt(t, j) /\ t[j].name = t[i].name}
  IN  IF before # {} THEN CHOOSE j \in before : \A k \in before : k <= j
      ELSE IF after # {} THEN CHOOSE j \in after : \A k \in after : j <= k
      ELSE 0

\* the bytes the image holds for the reference at token i are those of the
\* address a
LocalResolved(t, i, a) ==
  LET at == LocalAddress(t, i) - 3
  IN  IF t[i].type = TokenType.LABEL
      THEN /\ LoadByte(obs.asm.program, at + 1) = Lo(a)
           /\ LoadByte(obs.asm.program, at + 2) = Hi(a)
      ELSE LoadByte(obs.asm.program, at + 2) = (IF t[i].part = LABEL_LSB THEN Lo(a) ELSE Hi(a))

ClearReturned == obs.last.op = Opcode.RET_O /\ ~obs.last.thrown /\ obs.last.opPC = ktxt_print - 1

\* what ktxt_clear is to leave: PC behind the call, the 64 cells blank, the
\* cursor at 0 and in $8 the value the guest loaded before the call
Cleared ==
  /\ getMemory(vm, vm.pc - 3) = Opcode.CALL_P
  /\ \A i \in 0 .. 63 : getMemory(vm, TXT_DATA_ADDR + i) = 32
  /\ getMemory(vm, TXT_CURSOR_POS) = 0
  /\ getRegister(vm, 8) = getMemory(vm, vm.pc - 4)

InterruptServed ==
  /\ obs'.irq.n = obs.irq.n + 1
  /\ obs'.last.op = Opcode.RET_O /\ ~obs'.last.thrown
  /\ obs'.irqRet.done /\ obs'.irqRet.pc = obs'.irq.pc

\* C35: an interrupt delivered between two instructions, whose handler is a
\* single ret, leaves Zero, Negative and Carry as they were before it.
C35_InterruptKeepsFlags ==
  [][InterruptServed =>
       /\ getFlag(vm', "Zero") = getFlag(vm, "Zero")
       /\ getFlag(vm', "Negative") = getFlag(vm, "Negative")
       /\ getFlag(vm', "Carry") = getFlag(vm, "Carry")]_vars

\* C36: the paused flag and the running flag are never both true.
C36_PausedNotRunning == ~(vm.paused /\ vm.running)

\* C37: at most one interval timer is live, and between host events one is
\* live exactly when the running flag is true.
C37_OneTimerWhenRunning ==
  ~batch.active =>
    /\ Cardinality(vm.intervals) <= 1
    /\ (vm.intervals # {}) <=> vm.running

\* a hlt run by the Step button has set the VM running again, with one
\* interval, after an earlier interval had been cleared
C37_Witness ==
  /\ ~batch.active /\ obs.step.done
  /\ obs.last.op = Opcode.HLT_O /\ ~obs.last.thrown
  /\ vm.running /\ ~vm.paused
  /\ Cardinality(vm.intervals) = 1 /\ vm.runID \in vm.intervals
  /\ ops = 3

\* the place in the text of the token that ends the argument list of the
\* directive noted as d: the first token behind it that is neither an
\* argument nor a comma separating two; .addr takes one argument
EndOfList(d) ==
  IF d.name = "addr" THEN d.idx + 2
  ELSE IF ArgsAt(obs.asm.source, d.idx) = << >> THEN d.idx + 1
  ELSE d.idx + 2 * Len(ArgsAt(obs.asm.source, d.idx))

\* the directives of the latest assembly whose argument list is ended by a
\* token of the text
Ended ==
  {d \in obs.asm.directives :
     d.name \in {"addr", "byte", "word"} /\ EndOfList(d) <= Len(obs.asm.source)}

\* C38: the token that ends the argument list of a .byte, .word or .addr
\* directive is handled as the start of the next statement: a hlt there is
\* the byte at the cursor the directive left, and a label defined there is
\* bound to that cursor (until a later definition rebinds it).
C38_LookaheadKept ==
  obs.asm.result = "ok" =>
    \A d \in Ended :
      LET t == obs.asm.source[EndOfList(d)] IN
        /\ (t.type = TokenType.INSTRUCTION /\ t.name = "hlt" /\ t.eol) =>
             LoadByte(obs.asm.program, d.next) = Opcode.HLT_O
        /\ t.type = TokenType.LABEL =>
             /\ t.name \in DOMAIN obs.asm.labels
             /\ \/ obs.asm.labels[t.name] = d.next
                \/ \E r \in obs.asm.redefined :
                     r.label = t.name /\ r.first = d.next /\ ~r.refused

\* token i of text t is the leading word of a statement and no mnemonic: an
\* identifier that is not an argument of the mnemonic or directive before it
LeadsUnknown(t, i) ==
  /\ t[i].type = TokenType.IDENTIFIER
  /\ t[i].name \notin DOMAIN opMap
  /\ i > 1 =>
       /\ t[i - 1].type \notin {TokenType.COMMA, TokenType.DIRECTIVE, TokenType.IDENTIFIER}
       /\ t[i - 1].type = TokenType.INSTRUCTION => t[i - 1].eol

\* C39: a text with a statement whose leading word is not a known mnemonic is
\* refused: assembleProgram reports an error and returns null.
C39_UnknownRefused ==
  (\E i \in 1 .. Len(obs.asm.source) : LeadsUnknown(obs.asm.source, i)) =>
    obs.asm.result = "null"

\* a step in which a click handler has called loadProgram on the image
\* assembled from a text of HighSources: the text is the one noted
LoadsHigh ==
  /\ obs'.asm.source \in HighSources
  /\ AssembleHigh(obs'.asm.source) \/ RunHigh(obs'.asm.source)

\* the addresses of 0xE000..0xFFFD where the memory before or after the
\* step, or the image, differs from what the constructor left; every other
\* address reads the constructor's byte before and after
HighTouched ==
  {a \in DOMAIN vm.memory \cup DOMAIN vm'.memory \cup DOMAIN obs'.asm.program :
     a >= KERNEL_START_ADDR /\ a < ROM_START_ADDR}

\* C40: loadProgram leaves every byte of 0xE000..0xFFFD, and the input byte,
\* as it was before the load, whatever the image holds there; below 0xE000
\* the memory is the image, and the reset vector is main.
C40_LoadLeavesHigh ==
  [][LoadsHigh =>
       /\ \A a \in HighTouched : ReadCell(vm'.memory, a) = ReadCell(vm.memory, a)
       /\ vm'.input = vm.input
       /\ \A a \in DOMAIN obs'.asm.program \cup DOMAIN vm'.memory :
            a < KERNEL_START_ADDR => ReadCell(vm'.memory, a) = LoadByte(obs'.asm.program, a)
       /\ getMemory16(vm', ROM_START_ADDR) = obs'.asm.main]_vars

\* a text with 0xAA, 0xBB at the IRQ vector has been loaded over a memory
\* whose IRQ vector an earlier guest had set to 7: the 7 is still there, the
\* kernel's first byte is the 7 another guest left, and the reset vector is
\* main
C40_Witness ==
  /\ obs.asm.result = "ok" /\ vm.clock = 0 /\ ops = 3
  /\ LoadByte(obs.asm.program, INT_START_ADDR) = 170
  /\ LoadByte(obs.asm.program, INT_START_ADDR + 1) = 187
  /\ getMemory(vm, INT_START_ADDR) = 7 /\ getMemory(vm, INT_START_ADDR + 1) = 0
  /\ getMemory(vm, KERNEL_START_ADDR) = 7
  /\ getMemory16(vm, ROM_START_ADDR) = PROGRAM_BASE
  /\ getMemory(vm, PROGRAM_BASE) = Opcode.MOV_PK

====
